---- MODULE Spec2Model ----
(***************************************************************************)
(* Arrival prediction of the e-bus tracking server: the POST /generate,    *)
(* PUT /:id/update and GET /analytics handlers of                          *)
(* server/routes/prediction.js, the Prediction model's methods             *)
(* (server/models/Prediction.js), the handlers of server/routes/driver.js  *)
(* behind the middleware of server/middleware/auth.js, with the Bus        *)
(* model's methods and the rooms of the socket server (server/index.js),   *)
(* and the routes of the client (client/src/App.jsx, ProtectedRoute).      *)
(*                                                                         *)
(* Time is in milliseconds since local midnight of day 0.  The multipliers *)
(* 1.5, 0.8, 1.3, 1.2 and 30/speed are exact rationals here; the binary    *)
(* floating-point rounding of the JavaScript numbers is not modelled.  A   *)
(* Date built from a fractional number of milliseconds truncates it.       *)
(* An optional value is a sequence of length 0 (absent/undefined) or 1.    *)
(***************************************************************************)
EXTENDS Integers, Sequences, FiniteSets, Bags, TLC

VARIABLES now, buses, drivers, routes, predictions, reqs, served,
          rooms, emitted, client, tripsStarted

vars == <<now, buses, drivers, routes, predictions, reqs, served,
         rooms, emitted, client, tripsStarted>>

None == <<>>
Some(x) == <<x>>
IsSome(o) == o # <<>>

\* ---------------------------------------------------------------- bounds
\* requests in flight and stored records: of the lifecycle specification
\* (Spec), of the specification of concurrent generate requests (SpecGen) and
\* of the lifecycle with updatePrediction (SpecUpdate), of the lifecycle
\* with trips (SpecTrips), of the lifecycle with analytics (SpecAnalytics);
\* steps of the clock
MaxReq == 2
MaxPredictions == 1
MaxGenReq == 2
MaxGenPredictions == 2
MaxUpdReq == 1
MaxUpdPredictions == 1
MaxTripReq == 2
MaxTripPredictions == 1
MaxAnReq == 1
MaxAnPredictions == 3
MaxTicks == 1

\* ------------------------------------------------------- program constants
DefaultBaseTime == 30
SpeedBaseline == 30
PenaltyPerMinute == 2
MsPerMinute == 60000
MsPerHour == 3600000
SchemaSpeedMax == 120
BusCapacity == 2
ArrivalsLimit == 10

\* the clock of the specifications with a clock: 04:30, then steps of 3 h 30
ClockStart == 4 * MsPerHour + 30 * MsPerMinute
TickMs == 3 * MsPerHour + 30 * MsPerMinute

\* ------------------------------------------------------------ rationals
RECURSIVE Gcd(_, _)
Gcd(a, b) == IF b = 0 THEN a ELSE Gcd(b, a % b)

Rat(n, d) == LET g == Gcd(n, d) IN [n |-> n \div g, d |-> d \div g]

Times(q, n, d) == Rat(q.n * n, q.d * d)

\* a faulty variant: the offset is cut to whole hours
AddMinutesWholeHours(t, q) ==
  t + (((q.n * MsPerMinute) \div q.d) \div MsPerHour) * MsPerHour

\* new Date(now.getTime() + baseTime * 60 * 1000): Date truncates to whole ms
AddMinutes(t, q) == t + ((q.n * MsPerMinute) \div q.d)

\* ------------------------------------------------------------ wall clock
\* prediction.js 251-257
getTimeOfDay(t) ==
  LET hour == (t \div MsPerHour) % 24 IN
  IF hour >= 5 /\ hour < 12 THEN "morning"
  ELSE IF hour >= 12 /\ hour < 17 THEN "afternoon"
  ELSE IF hour >= 17 /\ hour < 21 THEN "evening"
  ELSE "night"

\* ------------------------------------------------------------ validators
MongoIds == {"b1", "b2", "b9", "r1", "r9"}
TrafficEnum == {"low", "medium", "high"}
WeatherEnum == {"clear", "rainy", "snowy", "foggy"}
TimeOfDayEnum == {"morning", "afternoon", "evening", "night"}

\* prediction.js 14-20: the express-validator chain of POST /generate; the
\* result is the list (here: set) of field-level messages
GenerateErrors(body) ==
  (IF IsSome(body.busId) /\ body.busId[1] \in MongoIds
     THEN {} ELSE {"Valid bus ID required"})
  \cup (IF IsSome(body.routeId) /\ body.routeId[1] \in MongoIds
     THEN {} ELSE {"Valid route ID required"})
  \cup (IF IsSome(body.stopId) /\ body.stopId[1] >= 1
     THEN {} ELSE {"Valid stop ID required"})
  \cup (IF IsSome(body.coordinates) /\ Len(body.coordinates[1]) = 2
     THEN {} ELSE {"Valid coordinates required"})
  \cup (IF IsSome(body.factors.trafficConditions)
          /\ body.factors.trafficConditions[1] \in TrafficEnum
     THEN {} ELSE {"Valid traffic condition required"})
  \cup (IF IsSome(body.factors.weatherConditions)
          /\ body.factors.weatherConditions[1] \in WeatherEnum
     THEN {} ELSE {"Valid weather condition required"})
  \cup (IF IsSome(body.factors.distanceToStop)
          /\ body.factors.distanceToStop[1] >= 0
     THEN {} ELSE {"Valid distance required"})

\* ------------------------------------------------- generate's arithmetic
\* a faulty variant: the multipliers of high and low traffic are exchanged
GenerateBaseTimeTrafficSwapped(factors) ==
  LET t0 == Rat(DefaultBaseTime, 1)
      t1 == IF factors.trafficConditions = Some("high") THEN Times(t0, 8, 10)
            ELSE IF factors.trafficConditions = Some("low") THEN Times(t0, 15, 10)
            ELSE t0
      t2 == IF factors.weatherConditions = Some("rainy")
               \/ factors.weatherConditions = Some("snowy")
            THEN Times(t1, 13, 10) ELSE t1
  IN IF IsSome(factors.currentSpeed) /\ factors.currentSpeed[1] > 0
     THEN Times(t2, SpeedBaseline, factors.currentSpeed[1]) ELSE t2


\* a faulty variant: a speed of 0 or less is raised to 1 before the division
GenerateBaseTimeSpeedFloor(factors) ==
  LET t0 == Rat(DefaultBaseTime, 1)
      t1 == IF factors.trafficConditions = Some("high") THEN Times(t0, 15, 10)
            ELSE IF factors.trafficConditions = Some("low") THEN Times(t0, 8, 10)
            ELSE t0
      t2 == IF factors.weatherConditions = Some("rainy")
               \/ factors.weatherConditions = Some("snowy")
            THEN Times(t1, 13, 10) ELSE t1
  IN IF IsSome(factors.currentSpeed)
     THEN Times(t2, SpeedBaseline,
                IF factors.currentSpeed[1] > 0 THEN factors.currentSpeed[1]
                ELSE 1)
     ELSE t2

\* a faulty variant: the speed factor is currentSpeed / 30
GenerateBaseTimeSpeedInverted(factors) ==
  LET t0 == Rat(DefaultBaseTime, 1)
      t1 == IF factors.trafficConditions = Some("high") THEN Times(t0, 15, 10)
            ELSE IF factors.trafficConditions = Some("low") THEN Times(t0, 8, 10)
            ELSE t0
      t2 == IF factors.weatherConditions = Some("rainy")
               \/ factors.weatherConditions = Some("snowy")
            THEN Times(t1, 13, 10) ELSE t1
  IN IF IsSome(factors.currentSpeed) /\ factors.currentSpeed[1] > 0
     THEN Times(t2, factors.currentSpeed[1], SpeedBaseline) ELSE t2

\* a faulty variant: foggy weather is slowed down like rain and snow
GenerateBaseTimeFoggy(factors) ==
  LET t0 == Rat(DefaultBaseTime, 1)
      t1 == IF factors.trafficConditions = Some("high") THEN Times(t0, 15, 10)
            ELSE IF factors.trafficConditions = Some("low") THEN Times(t0, 8, 10)
            ELSE t0
      t2 == IF factors.weatherConditions \in
                 {Some("rainy"), Some("snowy"), Some("foggy")}
            THEN Times(t1, 13, 10) ELSE t1
  IN IF IsSome(factors.currentSpeed) /\ factors.currentSpeed[1] > 0
     THEN Times(t2, SpeedBaseline, factors.currentSpeed[1]) ELSE t2

\* a faulty variant: every kilometre to the stop adds a tenth of the time
GenerateBaseTimeDistance(factors) ==
  LET t0 == Rat(DefaultBaseTime, 1)
      t1 == IF factors.trafficConditions = Some("high") THEN Times(t0, 15, 10)
            ELSE IF factors.trafficConditions = Some("low") THEN Times(t0, 8, 10)
            ELSE t0
      t2 == IF factors.weatherConditions = Some("rainy")
               \/ factors.weatherConditions = Some("snowy")
            THEN Times(t1, 13, 10) ELSE t1
      t3 == IF IsSome(factors.distanceToStop)
            THEN Times(t2, 10 + factors.distanceToStop[1], 10) ELSE t2
  IN IF IsSome(factors.currentSpeed) /\ factors.currentSpeed[1] > 0
     THEN Times(t3, SpeedBaseline, factors.currentSpeed[1]) ELSE t3

\* prediction.js 40-53: baseTime after the adjustments (minutes, a rational)
GenerateBaseTime(factors) ==
  LET t0 == Rat(DefaultBaseTime, 1)
      t1 == IF factors.trafficConditions = Some("high") THEN Times(t0, 15, 10)
            ELSE IF factors.trafficConditions = Some("low") THEN Times(t0, 8, 10)
            ELSE t0
      t2 == IF factors.weatherConditions = Some("rainy")
               \/ factors.weatherConditions = Some("snowy")
            THEN Times(t1, 13, 10) ELSE t1
  IN IF IsSome(factors.currentSpeed) /\ factors.currentSpeed[1] > 0
     THEN Times(t2, SpeedBaseline, factors.currentSpeed[1]) ELSE t2

\* ------------------------------------------------------- stored documents
\* a faulty variant: the schema gives predictionAccuracy a default of 0
NewPredictionAccuracyDefault(body, bus, predictedArrivalTime, t) ==
  [ busId |-> body.busId[1],
    routeId |-> body.routeId[1],
    driverId |-> bus.currentDriver,
    stopId |-> body.stopId[1],
    predictedArrivalTime |-> predictedArrivalTime,
    actualArrivalTime |-> None,
    predictionAccuracy |-> Some(0),
    factors |-> [ trafficConditions |-> body.factors.trafficConditions[1],
                  weatherConditions |-> body.factors.weatherConditions[1],
                  timeOfDay |-> getTimeOfDay(t),
                  currentSpeed |->
                    IF IsSome(body.factors.currentSpeed)
                    THEN body.factors.currentSpeed[1] ELSE 0,
                  distanceToStop |-> body.factors.distanceToStop ],
    averageTravelTime |-> 0,
    status |-> "pending",
    createdAt |-> t ]

\* a faulty variant: a timeOfDay of the caller's is kept
NewPredictionCallerTimeOfDay(body, bus, predictedArrivalTime, t) ==
  [ busId |-> body.busId[1],
    routeId |-> body.routeId[1],
    driverId |-> bus.currentDriver,
    stopId |-> body.stopId[1],
    predictedArrivalTime |-> predictedArrivalTime,
    actualArrivalTime |-> None,
    predictionAccuracy |-> None,
    factors |-> [ trafficConditions |->
                    IF IsSome(body.factors.trafficConditions)
                    THEN body.factors.trafficConditions[1] ELSE "medium",
                  weatherConditions |->
                    IF IsSome(body.factors.weatherConditions)
                    THEN body.factors.weatherConditions[1] ELSE "clear",
                  timeOfDay |->
                    IF IsSome(body.factors.timeOfDay)
                    THEN body.factors.timeOfDay[1] ELSE getTimeOfDay(t),
                  currentSpeed |->
                    IF IsSome(body.factors.currentSpeed)
                    THEN body.factors.currentSpeed[1] ELSE 0,
                  distanceToStop |-> body.factors.distanceToStop ],
    averageTravelTime |-> 0,
    status |-> "pending",
    createdAt |-> t ]

\* Prediction.js 3-144: the document Prediction.create builds from the
\* handler's argument (prediction.js 58-70), schema defaults applied
NewPrediction(body, bus, predictedArrivalTime, t) ==
  [ busId |-> body.busId[1],
    routeId |-> body.routeId[1],
    driverId |-> bus.currentDriver,
    stopId |-> body.stopId[1],
    predictedArrivalTime |-> predictedArrivalTime,
    actualArrivalTime |-> None,
    predictionAccuracy |-> None,
    factors |-> [ trafficConditions |->
                    IF IsSome(body.factors.trafficConditions)
                    THEN body.factors.trafficConditions[1] ELSE "medium",
                  weatherConditions |->
                    IF IsSome(body.factors.weatherConditions)
                    THEN body.factors.weatherConditions[1] ELSE "clear",
                  timeOfDay |-> getTimeOfDay(t),
                  currentSpeed |->
                    IF IsSome(body.factors.currentSpeed)
                    THEN body.factors.currentSpeed[1] ELSE 0,
                  distanceToStop |-> body.factors.distanceToStop ],
    averageTravelTime |-> 0,
    status |-> "pending",
    createdAt |-> t ]

\* Prediction.js 14-18, 46-77: what mongoose's validation of a document
\* rejects (required paths, enums, min/max)
SchemaErrors(doc) ==
  (IF IsSome(doc.driverId) THEN {} ELSE {"Driver ID is required"})
  \cup (IF doc.factors.trafficConditions \in TrafficEnum
        THEN {} ELSE {"trafficConditions: not a valid enum value"})
  \cup (IF doc.factors.weatherConditions \in WeatherEnum
        THEN {} ELSE {"weatherConditions: not a valid enum value"})
  \cup (IF doc.factors.timeOfDay \in TimeOfDayEnum
        THEN {} ELSE {"timeOfDay: not a valid enum value"})
  \cup (IF doc.factors.currentSpeed >= 0
           /\ doc.factors.currentSpeed <= SchemaSpeedMax
        THEN {} ELSE {"currentSpeed: out of range"})
  \cup (IF IsSome(doc.factors.distanceToStop)
        THEN (IF doc.factors.distanceToStop[1] >= 0
              THEN {} ELSE {"distanceToStop: out of range"})
        ELSE {"Distance to stop is required"})

\* ------------------------------------------------------------- requests
\* reqs is the bag of requests that wait on the database at an await;
\* served is the response the latest step sent, NoResponse if it sent none
NoResponse == [op |-> "none", status |-> 0]

Pending(op) == {r \in BagToSet(reqs) : r.op = op}

InFlight(op) ==
  LET RECURSIVE Sum(_)
      Sum(S) == IF S = {} THEN 0
                ELSE LET r == CHOOSE x \in S : TRUE
                     IN CopiesIn(r, reqs) + Sum(S \ {r})
  IN Sum(Pending(op))

\* a faulty variant: only the bus is looked up: if (!bus) instead of (!bus || !route)
GenerateBeginBusOnly(body) ==
  /\ LET errors == GenerateErrors(body) IN
     IF errors # {}
     THEN /\ served' = [op |-> "generate", status |-> 400, errors |-> errors,
                        body |-> body]
          /\ UNCHANGED reqs
     ELSE IF body.busId[1] \notin DOMAIN buses
     THEN /\ served' = [op |-> "generate", status |-> 404, errors |-> {},
                        body |-> body]
          /\ UNCHANGED reqs
     ELSE /\ reqs' = reqs (+) SetToBag({
               [op |-> "generate", body |-> body, now |-> now,
                doc |-> NewPrediction(body, buses[body.busId[1]],
                          AddMinutes(now, GenerateBaseTime(body.factors)),
                          now)]})
          /\ served' = NoResponse
  /\ UNCHANGED <<now, buses, drivers, routes, predictions>>
  /\ UNCHANGED <<rooms, emitted, client, tripsStarted>>

\* prediction.js 21-70: the validators' 400 answer; Bus.findById and
\* Route.findById and the 404 answer; else the arithmetic up to the call of
\* Prediction.create.  Nothing is written up to there, so the arrival of the
\* request and the two reads are one step.
GenerateBegin(body) ==
  /\ LET errors == GenerateErrors(body) IN
     IF errors # {}
     THEN /\ served' = [op |-> "generate", status |-> 400, errors |-> errors,
                        body |-> body]
          /\ UNCHANGED reqs
     ELSE IF body.busId[1] \notin DOMAIN buses
             \/ body.routeId[1] \notin DOMAIN routes
     THEN /\ served' = [op |-> "generate", status |-> 404, errors |-> {},
                        body |-> body]
          /\ UNCHANGED reqs
     ELSE /\ reqs' = reqs (+) SetToBag({
               [op |-> "generate", body |-> body, now |-> now,
                doc |-> NewPrediction(body, buses[body.busId[1]],
                          AddMinutes(now, GenerateBaseTime(body.factors)),
                          now)]})
          /\ served' = NoResponse
  /\ UNCHANGED <<now, buses, drivers, routes, predictions>>
  /\ UNCHANGED <<rooms, emitted, client, tripsStarted>>

\* a faulty variant: the record of the same (bus, route, stop) is replaced: an upsert
GenerateCreateUpsert(r) ==
  /\ BagIn(r, reqs) /\ r.op = "generate"
  /\ LET doc == [r.doc EXCEPT !.createdAt = now]
         same == {i \in 1..Len(predictions) :
                    /\ predictions[i].busId = doc.busId
                    /\ predictions[i].routeId = doc.routeId
                    /\ predictions[i].stopId = doc.stopId}
     IN
     IF SchemaErrors(doc) # {}
     THEN /\ served' = [op |-> "generate", status |-> 500, errors |-> {},
                        body |-> r.body]
          /\ UNCHANGED predictions
     ELSE /\ predictions' =
               IF same = {} THEN Append(predictions, doc)
               ELSE [predictions EXCEPT ![CHOOSE i \in same : TRUE] = doc]
          /\ served' = [op |-> "generate", status |-> 201, errors |-> {},
                        body |-> r.body]
  /\ reqs' = reqs (-) SetToBag({r})
  /\ UNCHANGED <<now, buses, drivers, routes>>
  /\ UNCHANGED <<rooms, emitted, client, tripsStarted>>

\* prediction.js 58-86: Prediction.create validates and inserts the document
\* (createdAt is the time of the insert); a rejected document is the catch
\* branch's 500
GenerateCreate(r) ==
  /\ BagIn(r, reqs) /\ r.op = "generate"
  /\ LET doc == [r.doc EXCEPT !.createdAt = now] IN
     IF SchemaErrors(doc) # {}
     THEN /\ served' = [op |-> "generate", status |-> 500, errors |-> {},
                        body |-> r.body]
          /\ UNCHANGED predictions
     ELSE /\ predictions' = Append(predictions, doc)
          /\ served' = [op |-> "generate", status |-> 201, errors |-> {},
                        body |-> r.body]
  /\ reqs' = reqs (-) SetToBag({r})
  /\ UNCHANGED <<now, buses, drivers, routes>>
  /\ UNCHANGED <<rooms, emitted, client, tripsStarted>>

\* --------------------------------------------------------------- reconcile
\* Math.round of a non-negative rational n/d: halves round up
RoundHalfUp(n, d) == (2 * n + d) \div (2 * d)

Abs(x) == IF x < 0 THEN -x ELSE x

Max(a, b) == IF a >= b THEN a ELSE b

\* a faulty variant: the difference is taken without Math.abs
calculateAccuracySigned(doc) ==
  IF ~IsSome(doc.actualArrivalTime) THEN doc
  ELSE LET difference == doc.predictedArrivalTime - doc.actualArrivalTime[1]
           accuracy == Max(0, 100 * MsPerMinute - difference * PenaltyPerMinute)
       IN [doc EXCEPT !.predictionAccuracy =
                         Some(RoundHalfUp(accuracy, MsPerMinute))]

\* Prediction.js 153-165
calculateAccuracy(doc) ==
  IF ~IsSome(doc.actualArrivalTime) THEN doc
  ELSE LET difference == Abs(doc.predictedArrivalTime - doc.actualArrivalTime[1])
           \* accuracy = max(0, 100 - difference/60000 * 2), over 60000
           accuracy == Max(0, 100 * MsPerMinute - difference * PenaltyPerMinute)
       IN [doc EXCEPT !.predictionAccuracy =
                         Some(RoundHalfUp(accuracy, MsPerMinute))]

\* the paths of the loaded document that the handler reads or assigns
\* (prediction.js 133-144); the request keeps no other
ReportPaths(doc) ==
  [ predictedArrivalTime |-> doc.predictedArrivalTime,
    actualArrivalTime |-> doc.actualArrivalTime,
    status |-> doc.status,
    predictionAccuracy |-> doc.predictionAccuracy ]

\* prediction.js 116-136: validation, Prediction.findById, the 404 answer,
\* else the assignments to the loaded document up to the call of save().
\* The :id parameter is None when the string is not an ObjectId, else
\* Some(n): the id of the n-th record inserted, or of none when n is larger.
\* The route has no validator for :id: findById rejects with a CastError on
\* a string that is not an ObjectId, which the catch branch answers (500).
ReportFind(id, actualArrivalTime) ==
  /\ IF ~IsSome(actualArrivalTime)
     THEN /\ served' = [op |-> "reportActual", status |-> 400,
                        errors |-> {"Valid arrival time required"}, id |-> id]
          /\ UNCHANGED reqs
     ELSE IF ~IsSome(id)
     THEN /\ served' = [op |-> "reportActual", status |-> 500,
                        errors |-> {}, id |-> id]
          /\ UNCHANGED reqs
     ELSE IF id[1] \notin 1..Len(predictions)
     THEN /\ served' = [op |-> "reportActual", status |-> 404,
                        errors |-> {}, id |-> id]
          /\ UNCHANGED reqs
     ELSE /\ reqs' = reqs (+) SetToBag({
               [op |-> "reportActual", id |-> id[1],
                doc |-> ReportPaths(calculateAccuracy(
                          [predictions[id[1]] EXCEPT
                             !.actualArrivalTime = actualArrivalTime,
                             !.status = "arrived"]))]})
          /\ served' = NoResponse
  /\ UNCHANGED <<now, buses, drivers, routes, predictions>>
  /\ UNCHANGED <<rooms, emitted, client, tripsStarted>>

\* a faulty variant: a record that has an actual arrival keeps it: a second report
\* changes nothing
ReportSaveKeepsFirst(r) ==
  /\ BagIn(r, reqs) /\ r.op = "reportActual"
  /\ predictions' =
       IF IsSome(predictions[r.id].actualArrivalTime) THEN predictions
       ELSE [predictions EXCEPT
               ![r.id].actualArrivalTime = r.doc.actualArrivalTime,
               ![r.id].status = r.doc.status,
               ![r.id].predictionAccuracy = r.doc.predictionAccuracy]
  /\ served' = [op |-> "reportActual", status |-> 200, errors |-> {},
                id |-> Some(r.id)]
  /\ reqs' = reqs (-) SetToBag({r})
  /\ UNCHANGED <<now, buses, drivers, routes>>
  /\ UNCHANGED <<rooms, emitted, client, tripsStarted>>

\* prediction.js 136-146: save() writes the paths the handler assigned
ReportSave(r) ==
  /\ BagIn(r, reqs) /\ r.op = "reportActual"
  /\ predictions' = [predictions EXCEPT
        ![r.id].actualArrivalTime = r.doc.actualArrivalTime,
        ![r.id].status = r.doc.status,
        ![r.id].predictionAccuracy = r.doc.predictionAccuracy]
  /\ served' = [op |-> "reportActual", status |-> 200, errors |-> {},
                id |-> Some(r.id)]
  /\ reqs' = reqs (-) SetToBag({r})
  /\ UNCHANGED <<now, buses, drivers, routes>>
  /\ UNCHANGED <<rooms, emitted, client, tripsStarted>>

\* -------------------------------------------------------- updatePrediction
\* Prediction.js 169: { ...this.factors, ...newFactors }
MergeFactors(factors, newFactors) ==
  [f \in DOMAIN factors \cup DOMAIN newFactors |->
     IF f \in DOMAIN newFactors THEN newFactors[f] ELSE factors[f]]

\* Prediction.js 168-198: the document as the method leaves it before save()
updatePrediction(doc, newFactors, t) ==
  LET factors == MergeFactors(doc.factors, newFactors)
      t0 == Rat(IF doc.averageTravelTime # 0 THEN doc.averageTravelTime
                ELSE DefaultBaseTime, 1)
      t1 == IF factors.trafficConditions = "high" THEN Times(t0, 15, 10)
            ELSE IF factors.trafficConditions = "low" THEN Times(t0, 8, 10)
            ELSE t0
      t2 == IF factors.weatherConditions = "rainy"
               \/ factors.weatherConditions = "snowy"
            THEN Times(t1, 13, 10) ELSE t1
      t3 == IF factors.timeOfDay = "morning" \/ factors.timeOfDay = "evening"
            THEN Times(t2, 12, 10) ELSE t2
      baseTime == IF factors.currentSpeed > 0
                  THEN Times(t3, SpeedBaseline, factors.currentSpeed) ELSE t3
  IN [doc EXCEPT !.factors = factors,
                 !.predictedArrivalTime = AddMinutes(t, baseTime)]

\* the partial factor objects a caller of updatePrediction passes
NewFactorsInputs ==
  { [trafficConditions |-> "low", currentSpeed |-> 60] }

\* Prediction.js 168-201: the method on a stored document, then save(), which
\* rejects a document the schema does not admit
UpdatePrediction(id, newFactors) ==
  /\ id \in 1..Len(predictions)
  /\ LET doc == updatePrediction(predictions[id], newFactors, now) IN
     IF SchemaErrors(doc) # {}
     THEN UNCHANGED predictions
     ELSE predictions' = [predictions EXCEPT ![id] = doc]
  /\ served' = NoResponse
  /\ UNCHANGED <<now, buses, drivers, routes, reqs>>
  /\ UNCHANGED <<rooms, emitted, client, tripsStarted>>

\* -------------------------------------------------------------- analytics
\* prediction.js 163-175: the window of a period, in minutes; any other
\* value is 7 days
PeriodMinutes(period) ==
  IF period = "24h" THEN 24 * 60
  ELSE IF period = "30d" THEN 30 * 24 * 60
  ELSE 7 * 24 * 60

\* prediction.js 178: createdAt >= Date.now() - window.  The window is kept
\* in minutes and the age rounded up to minutes, which is the same
\* comparison and keeps the numbers within 32 bits.
SinceStartDate(createdAt, period) ==
  ((now - createdAt) + (MsPerMinute - 1)) \div MsPerMinute
    <= PeriodMinutes(period)

\* prediction.js 182-183: the filter is the string of the query, put into
\* $match as it is; an aggregation pipeline is not cast to the schema, and
\* a stored ObjectId is never equal to a string
MatchesQueryString(objectId, string) == FALSE

\* prediction.js 177-183: the indexes of the records $match lets through
AnalyticsMatch(period, busId, routeId) ==
  { i \in 1..Len(predictions) :
      /\ SinceStartDate(predictions[i].createdAt, period)
      /\ IsSome(predictions[i].actualArrivalTime)
      /\ IsSome(busId) => MatchesQueryString(predictions[i].busId, busId[1])
      /\ IsSome(routeId)
         => MatchesQueryString(predictions[i].routeId, routeId[1]) }

\* the delay of a reconciled record: $abs of $subtract of the two dates
AnalyticsDelay(doc) ==
  Abs(doc.predictedArrivalTime - doc.actualArrivalTime[1])

RECURSIVE SumAccuracy(_)
SumAccuracy(M) ==
  IF M = {} THEN 0
  ELSE LET i == CHOOSE x \in M : TRUE
       IN predictions[i].predictionAccuracy[1] + SumAccuracy(M \ {i})

RECURSIVE SumDelay(_)
SumDelay(M) ==
  IF M = {} THEN 0
  ELSE LET i == CHOOSE x \in M : TRUE
       IN AnalyticsDelay(predictions[i]) + SumDelay(M \ {i})

\* prediction.js 185-208: the $group stage over the matched records (the
\* averages are exact fractions), no document when none matched
AnalyticsGroup(M) ==
  [ averageAccuracy |-> Rat(SumAccuracy(M), Cardinality(M)),
    totalPredictions |-> Cardinality(M),
    accuratePredictions |->
      Cardinality({i \in M : predictions[i].predictionAccuracy[1] >= 80}),
    averageDelay |-> Rat(SumDelay(M), Cardinality(M)) ]

\* prediction.js 156-221: GET /analytics; the aggregate is its only read
Analytics(period, busId, routeId) ==
  /\ LET M == AnalyticsMatch(period, busId, routeId) IN
     served' = [ op |-> "analytics", status |-> 200, period |-> period,
                 busId |-> busId, routeId |-> routeId,
                 analytics |->
                   IF M = {}
                   THEN [ averageAccuracy |-> Rat(0, 1),
                          totalPredictions |-> 0,
                          accuratePredictions |-> 0,
                          averageDelay |-> Rat(0, 1) ]
                   ELSE AnalyticsGroup(M) ]
  /\ UNCHANGED <<now, buses, drivers, routes, predictions, reqs>>
  /\ UNCHANGED <<rooms, emitted, client, tripsStarted>>

\* ------------------------------------------------------------------ trips
\* save() of a loaded document writes the paths whose value the handler
\* changed: the other paths keep what the store holds by then
SaveModified(stored, loaded, doc) ==
  [f \in DOMAIN stored |-> IF doc[f] # loaded[f] THEN doc[f] ELSE stored[f]]

TripResponse(op, status) == [op |-> op, status |-> status]

\* driver.js 73-90: POST /start-trip of the authenticated driver d: the
\* validators' 400, Driver.findById, the 403 of a driver not assigned to the
\* bus
StartTripBegin(d, busId, routeId) ==
  /\ IF busId \notin MongoIds \/ routeId \notin MongoIds
     THEN /\ served' = TripResponse("startTrip", 400)
          /\ UNCHANGED reqs
     ELSE IF drivers[d].currentBus # Some(busId)
     THEN /\ served' = TripResponse("startTrip", 403)
          /\ UNCHANGED reqs
     ELSE /\ reqs' = reqs (+) SetToBag({
               [op |-> "startTrip", pc |-> "findBus", d |-> d,
                busId |-> busId, routeId |-> routeId,
                driver |-> drivers[d]]})
          /\ served' = NoResponse
  /\ UNCHANGED <<now, buses, drivers, routes, predictions>>
  /\ UNCHANGED <<rooms, emitted, client, tripsStarted>>

\* driver.js 92-110: Bus.findById, 404 / 400 (bus not active), then
\* Route.findById, 404 / 400 (route not active); routes never change, so the
\* two reads are one step
StartTripFindBus(r) ==
  /\ BagIn(r, reqs) /\ r.op = "startTrip" /\ r.pc = "findBus"
  /\ IF r.busId \notin DOMAIN buses
     THEN /\ served' = TripResponse("startTrip", 404)
          /\ reqs' = reqs (-) SetToBag({r})
     ELSE IF buses[r.busId].status # "active"
     THEN /\ served' = TripResponse("startTrip", 400)
          /\ reqs' = reqs (-) SetToBag({r})
     ELSE IF r.routeId \notin DOMAIN routes
     THEN /\ served' = TripResponse("startTrip", 404)
          /\ reqs' = reqs (-) SetToBag({r})
     ELSE IF routes[r.routeId].status # "active"
     THEN /\ served' = TripResponse("startTrip", 400)
          /\ reqs' = reqs (-) SetToBag({r})
     ELSE /\ reqs' = (reqs (-) SetToBag({r})) (+) SetToBag({
               [op |-> "startTrip", pc |-> "busSave", d |-> r.d,
                busId |-> r.busId, routeId |-> r.routeId,
                driver |-> r.driver, bus |-> buses[r.busId]]})
          /\ served' = NoResponse
  /\ UNCHANGED <<now, buses, drivers, routes, predictions>>
  /\ UNCHANGED <<rooms, emitted, client, tripsStarted>>

\* Bus model 165-171 (bus.startTrip), awaited at driver.js 112
StartTripBusSave(r) ==
  /\ BagIn(r, reqs) /\ r.op = "startTrip" /\ r.pc = "busSave"
  /\ buses' = [buses EXCEPT ![r.busId] =
        SaveModified(@, r.bus,
          [r.bus EXCEPT !.status = "on_trip",
                        !.currentRoute = Some(r.routeId),
                        !.currentDriver = Some(r.d),
                        !.isOnline = TRUE])]
  /\ reqs' = (reqs (-) SetToBag({r})) (+) SetToBag({
        [op |-> "startTrip", pc |-> "driverSave", d |-> r.d,
         busId |-> r.busId, routeId |-> r.routeId, driver |-> r.driver]})
  /\ served' = NoResponse
  /\ UNCHANGED <<now, drivers, routes, predictions>>
  /\ UNCHANGED <<rooms, emitted, client, tripsStarted>>

\* driver.js 114-131: the driver's status, driver.save(), the 200 answer
StartTripDriverSave(r) ==
  /\ BagIn(r, reqs) /\ r.op = "startTrip" /\ r.pc = "driverSave"
  /\ drivers' = [drivers EXCEPT ![r.d] =
        SaveModified(@, r.driver,
          [r.driver EXCEPT !.isOnDuty = TRUE,
                           !.currentBus = Some(r.busId)])]
  /\ reqs' = reqs (-) SetToBag({r})
  /\ served' = TripResponse("startTrip", 200)
  /\ tripsStarted' = [tripsStarted EXCEPT ![r.d] = @ + 1]
  /\ UNCHANGED <<now, buses, routes, predictions>>
  /\ UNCHANGED <<rooms, emitted, client>>

\* driver.js 142-148: POST /end-trip of the authenticated driver d:
\* Driver.findById, the 400 of a driver without a bus
EndTripBegin(d) ==
  /\ IF ~IsSome(drivers[d].currentBus)
     THEN /\ served' = TripResponse("endTrip", 400)
          /\ UNCHANGED reqs
     ELSE /\ reqs' = reqs (+) SetToBag({
               [op |-> "endTrip", pc |-> "findBus", d |-> d,
                driver |-> drivers[d]]})
          /\ served' = NoResponse
  /\ UNCHANGED <<now, buses, drivers, routes, predictions>>
  /\ UNCHANGED <<rooms, emitted, client, tripsStarted>>

\* driver.js 150-153: Bus.findById, the 404
EndTripFindBus(r) ==
  /\ BagIn(r, reqs) /\ r.op = "endTrip" /\ r.pc = "findBus"
  /\ IF r.driver.currentBus[1] \notin DOMAIN buses
     THEN /\ served' = TripResponse("endTrip", 404)
          /\ reqs' = reqs (-) SetToBag({r})
     ELSE /\ reqs' = (reqs (-) SetToBag({r})) (+) SetToBag({
               [op |-> "endTrip", pc |-> "busSave", d |-> r.d,
                driver |-> r.driver,
                bus |-> buses[r.driver.currentBus[1]]]})
          /\ served' = NoResponse
  /\ UNCHANGED <<now, buses, drivers, routes, predictions>>
  /\ UNCHANGED <<rooms, emitted, client, tripsStarted>>

\* a faulty variant: ending the trip cancels the pending predictions of the bus
EndTripBusSaveCancels(r) ==
  /\ BagIn(r, reqs) /\ r.op = "endTrip" /\ r.pc = "busSave"
  /\ buses' = [buses EXCEPT ![r.driver.currentBus[1]] =
        SaveModified(@, r.bus,
          [r.bus EXCEPT !.status = "active",
                        !.currentRoute = None,
                        !.currentDriver = None,
                        !.isOnline = FALSE,
                        !.currentCapacity = 0])]
  /\ predictions' =
       [i \in 1..Len(predictions) |->
          IF predictions[i].busId = r.driver.currentBus[1]
             /\ predictions[i].status = "pending"
          THEN [predictions[i] EXCEPT !.status = "cancelled"]
          ELSE predictions[i]]
  /\ reqs' = (reqs (-) SetToBag({r})) (+) SetToBag({
        [op |-> "endTrip", pc |-> "driverSave", d |-> r.d,
         driver |-> r.driver]})
  /\ served' = NoResponse
  /\ UNCHANGED <<now, drivers, routes>>
  /\ UNCHANGED <<rooms, emitted, client, tripsStarted>>

\* Bus model 174-181 (bus.endTrip), awaited at driver.js 156
EndTripBusSave(r) ==
  /\ BagIn(r, reqs) /\ r.op = "endTrip" /\ r.pc = "busSave"
  /\ buses' = [buses EXCEPT ![r.driver.currentBus[1]] =
        SaveModified(@, r.bus,
          [r.bus EXCEPT !.status = "active",
                        !.currentRoute = None,
                        !.currentDriver = None,
                        !.isOnline = FALSE,
                        !.currentCapacity = 0])]
  /\ reqs' = (reqs (-) SetToBag({r})) (+) SetToBag({
        [op |-> "endTrip", pc |-> "driverSave", d |-> r.d,
         driver |-> r.driver]})
  /\ served' = NoResponse
  /\ UNCHANGED <<now, drivers, routes, predictions>>
  /\ UNCHANGED <<rooms, emitted, client, tripsStarted>>

\* driver.js 158-167: the driver's status and trip count, driver.save(), 200
EndTripDriverSave(r) ==
  /\ BagIn(r, reqs) /\ r.op = "endTrip" /\ r.pc = "driverSave"
  /\ drivers' = [drivers EXCEPT ![r.d] =
        SaveModified(@, r.driver,
          [r.driver EXCEPT !.isOnDuty = FALSE,
                           !.currentBus = None,
                           !.totalTrips = @ + 1])]
  /\ reqs' = reqs (-) SetToBag({r})
  /\ served' = TripResponse("endTrip", 200)
  /\ UNCHANGED <<now, buses, routes, predictions>>
  /\ UNCHANGED <<rooms, emitted, client, tripsStarted>>

\* ------------------------------------------------------------------ clock
Tick ==
  /\ now < ClockStart + MaxTicks * TickMs
  /\ now' = now + TickMs
  /\ served' = NoResponse
  /\ UNCHANGED <<buses, drivers, routes, predictions, reqs>>
  /\ UNCHANGED <<rooms, emitted, client, tripsStarted>>

\* ------------------------------------------------------------------ inputs
BaseBody ==
  [ busId |-> Some("b1"), routeId |-> Some("r1"), stopId |-> Some(1),
    coordinates |-> Some(<<77, 28>>),
    factors |-> [ trafficConditions |-> Some("high"),
                  weatherConditions |-> Some("rainy"),
                  currentSpeed |-> Some(15),
                  distanceToStop |-> Some(5),
                  timeOfDay |-> None ] ]

\* the request bodies of the system-level specification: BaseBody and its
\* one-field variations
Bodies ==
  { BaseBody,
    [BaseBody EXCEPT !.busId = Some("b2")],
    [BaseBody EXCEPT !.busId = Some("b9")],
    [BaseBody EXCEPT !.routeId = Some("r9")],
    [BaseBody EXCEPT !.factors.trafficConditions = None],
    [BaseBody EXCEPT !.factors.currentSpeed = Some(150)],
    [BaseBody EXCEPT !.factors.distanceToStop = Some(-1)] }

\* the :id parameters of a reportActual request: a string that is not an
\* ObjectId, the ids of the stored records and the id of no record
IdInputs ==
  {None} \cup {Some(i) : i \in 1..(Len(predictions) + 1)}

\* the busId and routeId a start-trip request carries: the driver's bus,
\* another bus, a string that is no id; the route, and the id of no route
TripBusInputs == {"b1", "b2", "zz"}

TripRouteInputs == {"r1", "r9"}

\* the arrival a reportActual request carries while trips start and end
TripArrivalInput == Some(ClockStart + 117 * MsPerMinute)

\* values of historicalData.averageTravelTime of a stored record that
\* updatePrediction is applied to: 0 (the schema's default: none), 1, 45
HistoricalAverages == {0, 1, 45}

\* actual arrival times a reportActual request carries: around the stored
\* predictions (the request gives an absolute ISO-8601 time, or none)
ArrivalInputs ==
  {None, Some(ClockStart + 117 * MsPerMinute), Some(ClockStart + 100 * MsPerMinute)}

\* a stored prediction of (b1, r1) that carries a historical average
SeedPrediction ==
  [ busId |-> "b1", routeId |-> "r1", driverId |-> Some("d1"), stopId |-> 1,
    predictedArrivalTime |-> ClockStart + 45 * MsPerMinute,
    actualArrivalTime |-> None,
    predictionAccuracy |-> None,
    factors |-> [ trafficConditions |-> "medium",
                  weatherConditions |-> "clear",
                  timeOfDay |-> "night",
                  currentSpeed |-> 0,
                  distanceToStop |-> Some(5) ],
    averageTravelTime |-> 45,
    status |-> "pending",
    createdAt |-> ClockStart ]

\* stored predictions of (b1, r1) that were reconciled: one created 8 days
\* before the clock starts (accuracy 90), one 23 hours before (accuracy 60)
SeedOldReconciled ==
  [SeedPrediction EXCEPT
     !.createdAt = ClockStart - 8 * 24 * MsPerHour,
     !.predictedArrivalTime = ClockStart - 8 * 24 * MsPerHour + 45 * MsPerMinute,
     !.actualArrivalTime = Some(ClockStart - 8 * 24 * MsPerHour + 50 * MsPerMinute),
     !.predictionAccuracy = Some(90),
     !.status = "arrived"]

SeedRecentReconciled ==
  [SeedPrediction EXCEPT
     !.createdAt = ClockStart - 23 * MsPerHour,
     !.predictedArrivalTime = ClockStart - 23 * MsPerHour + 45 * MsPerMinute,
     !.actualArrivalTime = Some(ClockStart - 23 * MsPerHour + 65 * MsPerMinute),
     !.predictionAccuracy = Some(60),
     !.status = "arrived"]

\* the query of GET /analytics: period (any string), busId and routeId
PeriodInputs == {"24h", "7d", "30d", "1y"}

BusFilterInputs == {None, Some("b1")}

RouteFilterInputs == {None, Some("r1")}

\* ---------------------------------------------------------- specification
\* the request bodies of the lifecycle specification
LifecycleBodies == {BaseBody, [BaseBody EXCEPT !.busId = Some("b9")]}

\* every combination of the factors a request can carry, valid or not
WideBodies ==
  { [BaseBody EXCEPT !.factors =
       [ trafficConditions |-> tr, weatherConditions |-> we,
         currentSpeed |-> sp, distanceToStop |-> di, timeOfDay |-> td ]] :
      tr \in {None, Some("low"), Some("medium"), Some("high"), Some("jam")},
      we \in {None, Some("clear"), Some("rainy"), Some("snowy"), Some("foggy")},
      sp \in {None, Some(0), Some(15), Some(30), Some(60), Some(120),
              Some(121), Some(-1)},
      di \in {None, Some(0), Some(5), Some(-1)},
      td \in {None, Some("night")} }

\* every combination of factors the validators admit, with and without a
\* speed (in and out of the schema's range) and a timeOfDay of the caller's
FactorBodies ==
  { [BaseBody EXCEPT !.factors =
       [ trafficConditions |-> Some(tr), weatherConditions |-> Some(we),
         currentSpeed |-> sp, distanceToStop |-> Some(di),
         timeOfDay |-> td ]] :
      tr \in TrafficEnum, we \in WeatherEnum,
      sp \in {None, Some(0), Some(15), Some(30), Some(60), Some(120),
              Some(121), Some(-1)},
      di \in {0, 5},
      td \in {None, Some("night")} }

\* the partial factor objects updatePrediction is applied with to a record
\* a generate request stored
FactorUpdates ==
  { [trafficConditions |-> "low", currentSpeed |-> 120],
    [weatherConditions |-> "foggy", currentSpeed |-> 0] }

\* offsets of the reported arrival from the predicted one, around the
\* rounding and clamping edges of the accuracy
WideDeltas ==
  { 0, 1, 14999, 15000, 15001, -14999, -15000, -15001,
    25 * MsPerMinute, -(25 * MsPerMinute), 50 * MsPerMinute - 1,
    50 * MsPerMinute, -(50 * MsPerMinute), 180 * MsPerMinute }

Hours == 0..23

\* ---------------------------------------------------------- specifications
\* a stored bus (Bus model 3-139: the paths the handlers read or write, the
\* schema's defaults for the others, and the version key __v of the
\* document) and a stored driver (Driver.js 44-90)
BusDoc(status, currentDriver, currentRoute) ==
  [ status |-> status, currentDriver |-> currentDriver,
    currentRoute |-> currentRoute, isOnline |-> status = "on_trip",
    capacity |-> BusCapacity, currentCapacity |-> 0,
    currentLocation |-> [coordinates |-> <<0, 0>>, address |-> None],
    lastLocationUpdate |-> ClockStart, maintenanceHistory |-> << >>,
    version |-> 0 ]

DriverDoc(currentBus, isOnDuty) ==
  [ currentBus |-> currentBus, isOnDuty |-> isOnDuty, totalTrips |-> 0,
    role |-> "driver", isActive |-> TRUE, currentLocation |-> None ]

\* the sockets connected to the server, in no room; nothing emitted; no
\* page of the client requested; tripsStarted records for each driver the
\* number of start-trip requests answered 200 (driver.js 119), a trip under
\* way at the start included
Sockets == {"s1", "s2"}

NoClient == [user |-> None, requested |-> "", location |-> "", page |-> ""]

Idle ==
  /\ reqs = EmptyBag
  /\ served = NoResponse
  /\ rooms = [s \in Sockets |-> {}]
  /\ emitted = << >>
  /\ client = NoClient
  /\ tripsStarted = [d \in DOMAIN drivers |->
                       IF \E b \in DOMAIN buses :
                            buses[b].currentDriver = Some(d)
                       THEN 1 ELSE 0]

\* bus b1 is on a trip of route r1 with driver d1; bus b2 stands idle
Stores ==
  /\ buses = [b \in {"b1", "b2"} |->
                IF b = "b1" THEN BusDoc("on_trip", Some("d1"), Some("r1"))
                ELSE BusDoc("active", None, None)]
  /\ drivers = [d \in {"d1"} |-> DriverDoc(Some("b1"), TRUE)]
  /\ routes = [r \in {"r1"} |-> [status |-> "active"]]
  /\ Idle

\* the lifecycle of a record through the routes: generate, reportActual
Init ==
  /\ now = ClockStart
  /\ predictions = << >>
  /\ Stores

Next ==
  \/ \E body \in LifecycleBodies :
       /\ BagCardinality(reqs) < MaxReq
       /\ Len(predictions) + InFlight("generate") < MaxPredictions
       /\ GenerateBegin(body)
  \/ \E r \in Pending("generate") : GenerateCreate(r)
  \/ \E id \in IdInputs, a \in ArrivalInputs :
       /\ BagCardinality(reqs) < MaxReq
       /\ ReportFind(id, a)
  \/ \E r \in Pending("reportActual") : ReportSave(r)
  \/ Tick

Spec == Init /\ [][Next]_vars

\* the lifecycle with a caller of the method updatePrediction, which no
\* route of the repository is
NextUpdate ==
  \/ \E body \in LifecycleBodies :
       /\ BagCardinality(reqs) < MaxUpdReq
       /\ Len(predictions) + InFlight("generate") < MaxUpdPredictions
       /\ GenerateBegin(body)
  \/ \E r \in Pending("generate") : GenerateCreate(r)
  \/ \E id \in IdInputs, a \in ArrivalInputs :
       /\ BagCardinality(reqs) < MaxUpdReq
       /\ ReportFind(id, a)
  \/ \E r \in Pending("reportActual") : ReportSave(r)
  \/ \E id \in 1..Len(predictions), nf \in NewFactorsInputs :
       UpdatePrediction(id, nf)
  \/ Tick

SpecUpdate == Init /\ [][NextUpdate]_vars

\* the lifecycle of a record while the driver of bus b1 starts and ends a
\* trip: the driver is assigned to the bus and the trip has not started
InitTrips ==
  /\ now = ClockStart
  /\ predictions = << >>
  /\ buses = [b \in {"b1", "b2"} |-> BusDoc("active", None, None)]
  /\ drivers = [d \in {"d1"} |-> DriverDoc(Some("b1"), FALSE)]
  /\ routes = [r \in {"r1"} |-> [status |-> "active"]]
  /\ Idle

NextTrips ==
  \/ \E body \in LifecycleBodies :
       /\ BagCardinality(reqs) < MaxTripReq
       /\ Len(predictions) + InFlight("generate") < MaxTripPredictions
       /\ GenerateBegin(body)
  \/ \E r \in Pending("generate") : GenerateCreate(r)
  \/ \E id \in 1..Len(predictions) :
       /\ BagCardinality(reqs) < MaxTripReq
       /\ ReportFind(Some(id), TripArrivalInput)
  \/ \E r \in Pending("reportActual") : ReportSave(r)
  \/ \E id \in 1..Len(predictions), nf \in NewFactorsInputs :
       UpdatePrediction(id, nf)
  \/ \E d \in DOMAIN drivers, busId \in TripBusInputs,
        routeId \in TripRouteInputs :
       /\ BagCardinality(reqs) < MaxTripReq
       /\ StartTripBegin(d, busId, routeId)
  \/ \E r \in Pending("startTrip") : StartTripFindBus(r)
  \/ \E r \in Pending("startTrip") : StartTripBusSave(r)
  \/ \E r \in Pending("startTrip") : StartTripDriverSave(r)
  \/ \E d \in DOMAIN drivers :
       /\ BagCardinality(reqs) < MaxTripReq
       /\ EndTripBegin(d)
  \/ \E r \in Pending("endTrip") : EndTripFindBus(r)
  \/ \E r \in Pending("endTrip") : EndTripBusSave(r)
  \/ \E r \in Pending("endTrip") : EndTripDriverSave(r)

SpecTrips == InitTrips /\ [][NextTrips]_vars

\* the lifecycle of a record over a store with two reconciled records, and
\* the analytics of the store
InitAnalytics ==
  /\ now = ClockStart
  /\ predictions = <<SeedOldReconciled, SeedRecentReconciled>>
  /\ Stores

NextAnalytics ==
  \/ \E body \in LifecycleBodies :
       /\ BagCardinality(reqs) < MaxAnReq
       /\ Len(predictions) + InFlight("generate") < MaxAnPredictions
       /\ GenerateBegin(body)
  \/ \E r \in Pending("generate") : GenerateCreate(r)
  \/ \E id \in IdInputs, a \in ArrivalInputs :
       /\ BagCardinality(reqs) < MaxAnReq
       /\ ReportFind(id, a)
  \/ \E r \in Pending("reportActual") : ReportSave(r)
  \/ \E period \in PeriodInputs, busId \in BusFilterInputs,
        routeId \in RouteFilterInputs :
       Analytics(period, busId, routeId)
  \/ Tick

SpecAnalytics == InitAnalytics /\ [][NextAnalytics]_vars

\* concurrent generate requests over a store that may hold a record with a
\* historical average
InitGen ==
  /\ now = ClockStart
  /\ predictions \in {<< >>, <<SeedPrediction>>}
  /\ Stores

NextGen ==
  \/ \E body \in Bodies :
       /\ BagCardinality(reqs) < MaxGenReq
       /\ Len(predictions) + InFlight("generate") < MaxGenPredictions
       /\ GenerateBegin(body)
  \/ \E r \in Pending("generate") : GenerateCreate(r)
  \/ Tick

SpecGen == InitGen /\ [][NextGen]_vars

\* one generate request with any combination of factors at any hour of the
\* day, then one reportActual on the record it stored
InitCalc ==
  /\ now \in {h * MsPerHour : h \in Hours}
  /\ predictions = << >>
  /\ Stores

NextCalc ==
  \/ \E body \in WideBodies :
       /\ reqs = EmptyBag /\ predictions = << >> /\ served = NoResponse
       /\ GenerateBegin(body)
  \/ \E r \in Pending("generate") : GenerateCreate(r)
  \/ \E d \in WideDeltas :
       /\ reqs = EmptyBag /\ Len(predictions) = 1
       /\ ~IsSome(predictions[1].actualArrivalTime)
       /\ ReportFind(Some(1), Some(predictions[1].predictedArrivalTime + d))
  \/ \E r \in Pending("reportActual") : ReportSave(r)

SpecCalc == InitCalc /\ [][NextCalc]_vars

\* one generate request with any admitted combination of factors at the
\* first or the last millisecond of any hour of the day, then
\* updatePrediction on the record it stored
InitFactors ==
  /\ now \in {h * MsPerHour : h \in Hours}
              \cup {h * MsPerHour + (MsPerHour - 1) : h \in Hours}
  /\ predictions = << >>
  /\ Stores

NextFactors ==
  \/ \E body \in FactorBodies :
       /\ reqs = EmptyBag /\ predictions = << >> /\ served = NoResponse
       /\ GenerateBegin(body)
  \/ \E r \in Pending("generate") : GenerateCreate(r)
  \/ \E nf \in FactorUpdates : UpdatePrediction(1, nf)

SpecFactors == InitFactors /\ [][NextFactors]_vars

\* ------------------------------------------------------------ middleware
\* the accounts of the User and Admin collections, which no handler of the
\* model writes
users ==
  [u \in {"u1", "u2"} |-> [role |-> "user", isActive |-> u = "u1"]]

admins == [a \in {"a1"} |-> [role |-> "admin", isActive |-> TRUE]]

\* auth.js 24-37: the collection a decoded role is looked up in
AccountsOf(role) ==
  IF role = "user" THEN users
  ELSE IF role = "admin" THEN admins
  ELSE drivers

Denied(status) == [status |-> status, user |-> None]

\* a faulty variant: an account that is deactivated still passes
protectIgnoresActive(token) ==
  IF ~IsSome(token) THEN Denied(401)
  ELSE IF ~token[1].signed THEN Denied(401)
  ELSE IF token[1].role \notin {"user", "admin", "driver"} THEN Denied(401)
  ELSE IF token[1].id \notin DOMAIN AccountsOf(token[1].role) THEN Denied(401)
  ELSE [status |-> 0,
        user |-> Some([id |-> token[1].id,
                       role |-> AccountsOf(token[1].role)[token[1].id].role])]

\* auth.js 7-53 (protect): the token of the Authorization header is absent
\* (None) or a token whose signature jwt.verify accepts or not, with the id
\* and role of its payload.  The answer is 401, or status 0 and req.user.
protect(token) ==
  IF ~IsSome(token) THEN Denied(401)
  ELSE IF ~token[1].signed THEN Denied(401)
  ELSE IF token[1].role \notin {"user", "admin", "driver"} THEN Denied(401)
  ELSE IF token[1].id \notin DOMAIN AccountsOf(token[1].role) THEN Denied(401)
  ELSE IF ~AccountsOf(token[1].role)[token[1].id].isActive THEN Denied(401)
  ELSE [status |-> 0,
        user |-> Some([id |-> token[1].id,
                       role |-> AccountsOf(token[1].role)[token[1].id].role])]

\* auth.js 56-70 (authorize(...roles)): 0 is next()
authorize(roles, user) ==
  IF ~IsSome(user) THEN 401
  ELSE IF user[1].role \notin roles THEN 403
  ELSE 0

\* auth.js 81-86 (isDriver), auth.js 73-78 (isAdmin)
isDriver(user) == IF ~IsSome(user) \/ user[1].role # "driver" THEN 403 ELSE 0

isAdmin(user) == IF ~IsSome(user) \/ user[1].role # "admin" THEN 403 ELSE 0

\* a middleware answers and the handler is not called
Reject(op, status, token) ==
  /\ served' = [op |-> op, status |-> status, token |-> token]
  /\ UNCHANGED <<now, buses, drivers, routes, predictions, reqs>>
  /\ UNCHANGED <<rooms, emitted, client, tripsStarted>>

\* router.<method>(path, protect, isDriver, ..., handler): the chain in front
\* of every handler of driver.js
DriverEndpoint(op, token, Handler(_)) ==
  LET auth == protect(token) IN
  IF auth.status # 0 THEN Reject(op, auth.status, token)
  ELSE IF isDriver(auth.user) # 0 THEN Reject(op, isDriver(auth.user), token)
  ELSE Handler(auth.user[1].id)

\* bus.js 63-84: router.post('/', protect, authorize('admin'), ...): the
\* chain; the handler behind it inserts a bus, which the unique index of
\* the bus number rejects (500) when the bus is there
CreateBus(token, busId) ==
  LET auth == protect(token) IN
  IF auth.status # 0 THEN Reject("createBus", auth.status, token)
  ELSE IF authorize({"admin"}, auth.user) # 0
  THEN Reject("createBus", authorize({"admin"}, auth.user), token)
  ELSE IF busId \in DOMAIN buses THEN Reject("createBus", 500, token)
  ELSE /\ buses' = [b \in DOMAIN buses \cup {busId} |->
                      IF b = busId THEN BusDoc("inactive", None, None)
                      ELSE buses[b]]
       /\ served' = TripResponse("createBus", 201)
       /\ UNCHANGED <<now, drivers, routes, predictions, reqs>>
       /\ UNCHANGED <<rooms, emitted, client, tripsStarted>>

\* ------------------------------------------------------- driver endpoints
\* the requests of a handler that wait at the step pc
At(op, pc) == {r \in Pending(op) : r.pc = pc}

Step(r, pc, bus) ==
  (reqs (-) SetToBag({r})) (+) SetToBag({[r EXCEPT !.pc = pc, !.bus = bus]})

Answer(r, op, status) ==
  /\ reqs' = reqs (-) SetToBag({r})
  /\ served' = TripResponse(op, status)

\* driver.js 362-377: PUT /update-status of driver d: the validator's 400
\* (isOnDuty is None when it is no boolean), Driver.findById, the 400 of a
\* driver without a bus who goes on duty
UpdateStatusBegin(d, isOnDuty) ==
  /\ IF ~IsSome(isOnDuty)
     THEN /\ served' = TripResponse("updateStatus", 400)
          /\ UNCHANGED reqs
     ELSE IF isOnDuty[1] /\ ~IsSome(drivers[d].currentBus)
     THEN /\ served' = TripResponse("updateStatus", 400)
          /\ UNCHANGED reqs
     ELSE /\ reqs' = reqs (+) SetToBag({
               [op |-> "updateStatus", pc |-> "driverSave", d |-> d,
                isOnDuty |-> isOnDuty[1], driver |-> drivers[d]]})
          /\ served' = NoResponse
  /\ UNCHANGED <<now, buses, drivers, routes, predictions>>
  /\ UNCHANGED <<rooms, emitted, client, tripsStarted>>

\* driver.js 379-385: driver.isOnDuty = isOnDuty, driver.save(), 200
UpdateStatusSave(r) ==
  /\ r \in At("updateStatus", "driverSave")
  /\ drivers' = [drivers EXCEPT ![r.d] =
        SaveModified(@, r.driver, [r.driver EXCEPT !.isOnDuty = r.isOnDuty])]
  /\ Answer(r, "updateStatus", 200)
  /\ UNCHANGED <<now, buses, routes, predictions>>
  /\ UNCHANGED <<rooms, emitted, client, tripsStarted>>

\* driver.js 177-191: PUT /update-passenger-count of driver d: the
\* validator's 400 (a count that is no integer >= 0 is None),
\* Driver.findById, the 400 of a driver without a bus
PassengerCountBegin(d, passengerCount) ==
  /\ IF ~IsSome(passengerCount)
     THEN /\ served' = TripResponse("updatePassengerCount", 400)
          /\ UNCHANGED reqs
     ELSE IF ~IsSome(drivers[d].currentBus)
     THEN /\ served' = TripResponse("updatePassengerCount", 400)
          /\ UNCHANGED reqs
     ELSE /\ reqs' = reqs (+) SetToBag({
               [op |-> "updatePassengerCount", pc |-> "findBus", d |-> d,
                passengerCount |-> passengerCount[1],
                busId |-> drivers[d].currentBus[1], bus |-> None]})
          /\ served' = NoResponse
  /\ UNCHANGED <<now, buses, drivers, routes, predictions>>
  /\ UNCHANGED <<rooms, emitted, client, tripsStarted>>

\* driver.js 193-200: Bus.findById, the 404, the 400 of a count above the
\* capacity of the bus
PassengerCountFindBus(r) ==
  /\ r \in At("updatePassengerCount", "findBus")
  /\ IF r.busId \notin DOMAIN buses
     THEN Answer(r, "updatePassengerCount", 404)
     ELSE IF r.passengerCount > buses[r.busId].capacity
     THEN Answer(r, "updatePassengerCount", 400)
     ELSE /\ reqs' = Step(r, "busSave", Some(buses[r.busId]))
          /\ served' = NoResponse
  /\ UNCHANGED <<now, buses, drivers, routes, predictions>>
  /\ UNCHANGED <<rooms, emitted, client, tripsStarted>>

\* driver.js 202-209: bus.currentCapacity = passengerCount, bus.save(), 200
PassengerCountSave(r) ==
  /\ r \in At("updatePassengerCount", "busSave")
  /\ buses' = [buses EXCEPT ![r.busId] =
        SaveModified(@, r.bus[1],
          [r.bus[1] EXCEPT !.currentCapacity = r.passengerCount])]
  /\ Answer(r, "updatePassengerCount", 200)
  /\ UNCHANGED <<now, drivers, routes, predictions>>
  /\ UNCHANGED <<rooms, emitted, client, tripsStarted>>

SeverityEnum == {"low", "medium", "high", "critical"}

\* driver.js 282-298: POST /report-issue of driver d: the validators' 400,
\* Driver.findById, the 400 of a driver without a bus
ReportIssueBegin(d, severity) ==
  /\ IF severity \notin SeverityEnum
     THEN /\ served' = TripResponse("reportIssue", 400)
          /\ UNCHANGED reqs
     ELSE IF ~IsSome(drivers[d].currentBus)
     THEN /\ served' = TripResponse("reportIssue", 400)
          /\ UNCHANGED reqs
     ELSE /\ reqs' = reqs (+) SetToBag({
               [op |-> "reportIssue", pc |-> "findBus", d |-> d,
                severity |-> severity,
                busId |-> drivers[d].currentBus[1], bus |-> None]})
          /\ served' = NoResponse
  /\ UNCHANGED <<now, buses, drivers, routes, predictions>>
  /\ UNCHANGED <<rooms, emitted, client, tripsStarted>>

\* driver.js 300-303: Bus.findById, the 404
ReportIssueFindBus(r) ==
  /\ r \in At("reportIssue", "findBus")
  /\ IF r.busId \notin DOMAIN buses
     THEN Answer(r, "reportIssue", 404)
     ELSE /\ reqs' = Step(r, "busSave", Some(buses[r.busId]))
          /\ served' = NoResponse
  /\ UNCHANGED <<now, buses, drivers, routes, predictions>>
  /\ UNCHANGED <<rooms, emitted, client, tripsStarted>>

\* a faulty variant: an issue of any severity takes the bus out of service
ReportIssueSaveAnySeverity(r) ==
  /\ r \in At("reportIssue", "busSave")
  /\ buses' = [buses EXCEPT ![r.busId] =
        [SaveModified(@, r.bus[1], [r.bus[1] EXCEPT !.status = "maintenance"])
           EXCEPT !.maintenanceHistory = Append(@, r.severity),
                  !.version = @ + 1]]
  /\ Answer(r, "reportIssue", 200)
  /\ UNCHANGED <<now, drivers, routes, predictions>>
  /\ UNCHANGED <<rooms, emitted, client, tripsStarted>>

\* driver.js 305-330: the entry pushed to the maintenance history (save()
\* sends a $push, which adds to the stored array and increments the version
\* of the document), the status of a critical issue, bus.save(), 200
ReportIssueSave(r) ==
  /\ r \in At("reportIssue", "busSave")
  /\ buses' = [buses EXCEPT ![r.busId] =
        [SaveModified(@, r.bus[1],
           IF r.severity = "critical"
           THEN [r.bus[1] EXCEPT !.status = "maintenance"] ELSE r.bus[1])
           EXCEPT !.maintenanceHistory = Append(@, r.severity),
                  !.version = @ + 1]]
  /\ Answer(r, "reportIssue", 200)
  /\ UNCHANGED <<now, drivers, routes, predictions>>
  /\ UNCHANGED <<rooms, emitted, client, tripsStarted>>

\* the room of a bus: `bus-${busId}` (index.js 82, driver.js 49)
RoomOf(busId) == <<"bus", busId>>

\* driver.js 14-38: PUT /update-location of driver d: the validators' 400
\* (the body is None when a validator fails), Driver.findById, the
\* assignments to driver.currentLocation up to the call of save()
UpdateLocationBegin(d, body) ==
  /\ IF ~IsSome(body)
     THEN /\ served' = TripResponse("updateLocation", 400)
          /\ UNCHANGED reqs
     ELSE /\ reqs' = reqs (+) SetToBag({
               [op |-> "updateLocation", pc |-> "driverSave", d |-> d,
                latitude |-> body[1].latitude,
                longitude |-> body[1].longitude,
                driver |-> drivers[d], bus |-> None]})
          /\ served' = NoResponse
  /\ UNCHANGED <<now, buses, drivers, routes, predictions>>
  /\ UNCHANGED <<rooms, emitted, client, tripsStarted>>

\* driver.js 40-43: driver.save(); a driver without a bus is answered (200)
UpdateLocationDriverSave(r) ==
  /\ r \in At("updateLocation", "driverSave")
  /\ drivers' = [drivers EXCEPT ![r.d] =
        SaveModified(@, r.driver,
          [r.driver EXCEPT !.currentLocation =
             Some(<<r.longitude, r.latitude>>)])]
  /\ IF ~IsSome(r.driver.currentBus)
     THEN Answer(r, "updateLocation", 200)
     ELSE /\ reqs' = Step(r, "findBus", None)
          /\ served' = NoResponse
  /\ UNCHANGED <<now, buses, routes, predictions>>
  /\ UNCHANGED <<rooms, emitted, client, tripsStarted>>

\* io.to(room).emit(event, data): the event reaches the sockets that are in
\* the room when it is emitted
Emit(room, event, data) ==
  Append(emitted, [room |-> room, event |-> event, data |-> data,
                   to |-> {s \in Sockets : room \in rooms[s]}])

\* a faulty variant: the event is emitted when the bus is found, before it is
\* saved
UpdateLocationFindBusEmits(r) ==
  /\ r \in At("updateLocation", "findBus")
  /\ IF r.driver.currentBus[1] \notin DOMAIN buses
     THEN /\ Answer(r, "updateLocation", 200)
          /\ UNCHANGED emitted
     ELSE /\ reqs' = Step(r, "busSave",
                          Some(buses[r.driver.currentBus[1]]))
          /\ emitted' = Emit(RoomOf(r.driver.currentBus[1]),
                             "bus-location-update",
                             [busId |-> r.driver.currentBus[1],
                              location |-> <<r.longitude, r.latitude>>])
          /\ served' = NoResponse
  /\ UNCHANGED <<now, buses, drivers, routes, predictions>>
  /\ UNCHANGED <<rooms, client, tripsStarted>>

\* driver.js 44-45: Bus.findById; no bus, no update and the 200 answer
UpdateLocationFindBus(r) ==
  /\ r \in At("updateLocation", "findBus")
  /\ IF r.driver.currentBus[1] \notin DOMAIN buses
     THEN Answer(r, "updateLocation", 200)
     ELSE /\ reqs' = Step(r, "busSave",
                          Some(buses[r.driver.currentBus[1]]))
          /\ served' = NoResponse
  /\ UNCHANGED <<now, buses, drivers, routes, predictions>>
  /\ UNCHANGED <<rooms, emitted, client, tripsStarted>>

\* Bus model 156-162 (bus.updateLocation), awaited at driver.js 46.  The
\* coordinates are an array path: save() sends it when the assigned value
\* differs from the loaded one, and then only to the version of the
\* document it loaded, which it increments; on another version save()
\* rejects (VersionError) and the catch branch answers 500.  The request
\* goes on with the document it saved.
UpdateLocationBusSave(r) ==
  /\ r \in At("updateLocation", "busSave")
  /\ LET busId == r.driver.currentBus[1]
         doc == [r.bus[1] EXCEPT
                   !.currentLocation.coordinates = <<r.longitude, r.latitude>>,
                   !.lastLocationUpdate = now]
         versioned == doc.currentLocation # r.bus[1].currentLocation
     IN IF versioned /\ buses[busId].version # r.bus[1].version
        THEN /\ Answer(r, "updateLocation", 500)
             /\ UNCHANGED buses
        ELSE /\ buses' = [buses EXCEPT ![busId] =
                  [SaveModified(@, r.bus[1], doc) EXCEPT
                     !.version = IF versioned THEN @ + 1 ELSE @]]
             /\ reqs' = Step(r, "emit", Some(doc))
             /\ served' = NoResponse
  /\ UNCHANGED <<now, drivers, routes, predictions>>
  /\ UNCHANGED <<rooms, emitted, client, tripsStarted>>

\* driver.js 48-62: the event to the room of the bus, built from the
\* document the request saved, then the 200 answer
UpdateLocationEmit(r) ==
  /\ r \in At("updateLocation", "emit")
  /\ emitted' = Emit(RoomOf(r.driver.currentBus[1]), "bus-location-update",
                     [busId |-> r.driver.currentBus[1],
                      location |-> r.bus[1].currentLocation.coordinates,
                      lastUpdate |-> r.bus[1].lastLocationUpdate])
  /\ Answer(r, "updateLocation", 200)
  /\ UNCHANGED <<now, buses, drivers, routes, predictions>>
  /\ UNCHANGED <<rooms, client, tripsStarted>>

\* index.js 81-84: socket.on('join-bus-track'): the socket joins the room of
\* the bus id it sent, which nothing checks
JoinBusTrack(socket, busId) ==
  /\ rooms' = [rooms EXCEPT ![socket] = @ \cup {RoomOf(busId)}]
  /\ served' = NoResponse
  /\ UNCHANGED <<now, buses, drivers, routes, predictions, reqs>>
  /\ UNCHANGED <<emitted, client, tripsStarted>>

\* index.js 86-89: socket.on('leave-bus-track')
LeaveBusTrack(socket, busId) ==
  /\ rooms' = [rooms EXCEPT ![socket] = @ \ {RoomOf(busId)}]
  /\ served' = NoResponse
  /\ UNCHANGED <<now, buses, drivers, routes, predictions, reqs>>
  /\ UNCHANGED <<emitted, client, tripsStarted>>

\* ------------------------------------------------- the driver's endpoints
\* requests in flight, trips ended, issues reported and events emitted: of
\* the specification of the driver's endpoints (SpecDriver); requests in
\* flight of the specifications of the middleware (SpecAuth), of the duty
\* endpoints (SpecDuty) and of update-location (SpecLocation)
MaxDriverReq == 1
MaxTotalTrips == 2
MaxIssues == 1
MaxEmitted == 1
MaxAuthReq == 1
MaxDutyReq == 2
MaxDutyTrips == 1
MaxLocationReq == 2
MaxLocationEmitted == 2

\* the Authorization header of a request: none; a token jwt.verify rejects;
\* the tokens the server signed for the drivers d1 (assigned to bus b1), d2
\* (no bus) and d3 (deactivated), for a driver account that is gone, for a
\* user and an admin, for a deactivated user, and one with another role
Token(id, role) == Some([signed |-> TRUE, id |-> id, role |-> role])

TokenInputs ==
  { None, Some([signed |-> FALSE, id |-> "d1", role |-> "driver"]),
    Token("d1", "driver"), Token("d2", "driver"), Token("d3", "driver"),
    Token("d9", "driver"), Token("u1", "user"), Token("u2", "user"),
    Token("a1", "admin"), Token("u1", "guest") }

\* the tokens of the drivers whose account is active
DriverTokens == {Token("d1", "driver"), Token("d2", "driver")}

DutyInputs == {None, Some(TRUE), Some(FALSE)}

CountInputs == {None, Some(1), Some(BusCapacity + 1)}

SeverityInputs == {"low", "critical", "fatal"}

LocationBodies ==
  { None, Some([latitude |-> 28, longitude |-> 77]),
    Some([latitude |-> 29, longitude |-> 78]) }

\* requests to the endpoints of driver.js with the token of their header
StartTripRequest(token) ==
  \E busId \in TripBusInputs, routeId \in TripRouteInputs :
    DriverEndpoint("startTrip", token,
                   LAMBDA d : StartTripBegin(d, busId, routeId))

EndTripRequest(token) == DriverEndpoint("endTrip", token, EndTripBegin)

UpdateStatusRequest(token) ==
  \E isOnDuty \in DutyInputs :
    DriverEndpoint("updateStatus", token,
                   LAMBDA d : UpdateStatusBegin(d, isOnDuty))

PassengerCountRequest(token) ==
  \E count \in CountInputs :
    DriverEndpoint("updatePassengerCount", token,
                   LAMBDA d : PassengerCountBegin(d, count))

ReportIssueRequest(token) ==
  \E severity \in SeverityInputs :
    DriverEndpoint("reportIssue", token,
                   LAMBDA d : ReportIssueBegin(d, severity))

UpdateLocationRequest(token) ==
  \E body \in LocationBodies :
    DriverEndpoint("updateLocation", token,
                   LAMBDA d : UpdateLocationBegin(d, body))

\* the steps of the handlers that wait on the database
StartTripStep ==
  \/ \E r \in Pending("startTrip") : StartTripFindBus(r)
  \/ \E r \in Pending("startTrip") : StartTripBusSave(r)
  \/ \E r \in Pending("startTrip") : StartTripDriverSave(r)

EndTripStep ==
  \/ \E r \in Pending("endTrip") : EndTripFindBus(r)
  \/ \E r \in Pending("endTrip") : EndTripBusSave(r)
  \/ \E r \in Pending("endTrip") : EndTripDriverSave(r)

UpdateLocationStep ==
  \/ \E r \in Pending("updateLocation") : UpdateLocationDriverSave(r)
  \/ \E r \in Pending("updateLocation") : UpdateLocationFindBus(r)
  \/ \E r \in Pending("updateLocation") : UpdateLocationBusSave(r)
  \/ \E r \in Pending("updateLocation") : UpdateLocationEmit(r)

\* driver d1 is assigned to bus b1 and has started no trip, driver d2 has no
\* bus, the account of driver d3 is deactivated
InitDriver ==
  /\ now = ClockStart
  /\ predictions = << >>
  /\ buses = [b \in {"b1", "b2"} |-> BusDoc("active", None, None)]
  /\ drivers = [d \in {"d1", "d2", "d3"} |->
                  IF d = "d1" THEN DriverDoc(Some("b1"), FALSE)
                  ELSE IF d = "d2" THEN DriverDoc(None, FALSE)
                  ELSE [DriverDoc(Some("b2"), FALSE) EXCEPT !.isActive = FALSE]]
  /\ routes = [r \in {"r1"} |-> [status |-> "active"]]
  /\ Idle

\* the six endpoints of the drivers, a request at a time
NextDriver ==
  \/ \E token \in DriverTokens :
       /\ BagCardinality(reqs) < MaxDriverReq
       /\ \/ StartTripRequest(token)
          \/ /\ \A d \in DOMAIN drivers :
                  drivers[d].totalTrips + InFlight("endTrip") < MaxTotalTrips
             /\ EndTripRequest(token)
          \/ UpdateStatusRequest(token)
          \/ PassengerCountRequest(token)
          \/ /\ \A b \in DOMAIN buses :
                  Len(buses[b].maintenanceHistory) + InFlight("reportIssue")
                    < MaxIssues
             /\ ReportIssueRequest(token)
          \/ /\ Len(emitted) + InFlight("updateLocation") < MaxEmitted
             /\ UpdateLocationRequest(token)
  \/ StartTripStep
  \/ EndTripStep
  \/ \E r \in Pending("updateStatus") : UpdateStatusSave(r)
  \/ \E r \in Pending("updatePassengerCount") : PassengerCountFindBus(r)
  \/ \E r \in Pending("updatePassengerCount") : PassengerCountSave(r)
  \/ \E r \in Pending("reportIssue") : ReportIssueFindBus(r)
  \/ \E r \in Pending("reportIssue") : ReportIssueSave(r)
  \/ UpdateLocationStep

SpecDriver == InitDriver /\ [][NextDriver]_vars

\* requests with any token to a driver's endpoint and to an admin's
NextAuth ==
  \/ \E token \in TokenInputs :
       /\ BagCardinality(reqs) < MaxAuthReq
       /\ StartTripRequest(token)
  \/ \E token \in TokenInputs :
       /\ BagCardinality(reqs) < MaxAuthReq
       /\ UpdateStatusRequest(token)
  \/ \E token \in TokenInputs :
       /\ "b3" \notin DOMAIN buses
       /\ CreateBus(token, "b3")
  \/ StartTripStep
  \/ \E r \in Pending("updateStatus") : UpdateStatusSave(r)

SpecAuth == InitDriver /\ [][NextAuth]_vars

\* the endpoints that change a driver's duty, two requests at a time
NextDuty ==
  \/ \E token \in DriverTokens :
       /\ BagCardinality(reqs) < MaxDutyReq
       /\ \/ StartTripRequest(token)
          \/ /\ \A d \in DOMAIN drivers :
                  drivers[d].totalTrips + InFlight("endTrip") < MaxDutyTrips
             /\ EndTripRequest(token)
          \/ UpdateStatusRequest(token)
  \/ StartTripStep
  \/ EndTripStep
  \/ \E r \in Pending("updateStatus") : UpdateStatusSave(r)

SpecDuty == InitDriver /\ [][NextDuty]_vars

\* update-location requests, two at a time, while sockets join and leave the
\* rooms of the buses; bus b1 stands where its driver reported it last
InitLocation ==
  /\ now = ClockStart
  /\ predictions = << >>
  /\ buses = [b \in {"b1", "b2"} |->
                IF b = "b1"
                THEN [BusDoc("active", None, None) EXCEPT
                        !.currentLocation.coordinates = <<77, 28>>,
                        !.version = 1]
                ELSE BusDoc("active", None, None)]
  /\ drivers = [d \in {"d1", "d2"} |->
                  IF d = "d1" THEN DriverDoc(Some("b1"), FALSE)
                  ELSE DriverDoc(None, FALSE)]
  /\ routes = [r \in {"r1"} |-> [status |-> "active"]]
  /\ Idle

NextLocation ==
  \/ \E token \in DriverTokens :
       /\ BagCardinality(reqs) < MaxLocationReq
       /\ Len(emitted) + InFlight("updateLocation") < MaxLocationEmitted
       /\ UpdateLocationRequest(token)
  \/ UpdateLocationStep
  \/ \E socket \in Sockets, busId \in {"b1", "b2"} :
       JoinBusTrack(socket, busId)
  \/ \E socket \in Sockets, busId \in {"b1", "b2"} :
       LeaveBusTrack(socket, busId)

SpecLocation == InitLocation /\ [][NextLocation]_vars

\* ------------------------------------------------------- next arrivals
\* the sequences of the indexes of M in ascending order of the predicted
\* arrival, cut after n: sort({predictedArrivalTime: 1}).limit(n); the order
\* of records of the same time is not determined
RECURSIVE SortLimit(_, _)
SortLimit(M, n) ==
  IF M = {} \/ n = 0 THEN { << >> }
  ELSE UNION { { <<i>> \o rest : rest \in SortLimit(M \ {i}, n - 1) } :
               i \in { j \in M : \A k \in M :
                         predictions[j].predictedArrivalTime
                           <= predictions[k].predictedArrivalTime } }

\* a faulty variant: the filter has no status
getPredictionsForStopAnyStatus(stopId, routeId) ==
  SortLimit({ i \in 1..Len(predictions) :
                /\ predictions[i].stopId = stopId
                /\ predictions[i].routeId = routeId
                /\ predictions[i].predictedArrivalTime >= now },
            ArrivalsLimit)

\* Prediction.js 204-215: the results find() can give (find casts the
\* filter to the schema: the stop to a number, the route to an ObjectId)
getPredictionsForStop(stopId, routeId) ==
  SortLimit({ i \in 1..Len(predictions) :
                /\ predictions[i].stopId = stopId
                /\ predictions[i].routeId = routeId
                /\ predictions[i].status \in {"pending", "in_transit"}
                /\ predictions[i].predictedArrivalTime >= now },
            ArrivalsLimit)

\* prediction.js 91-111: GET /stop/:stopId?routeId=: the 400 of a query
\* without routeId; the cast of a stop that is no number (None) or of a
\* route that is no ObjectId rejects, which the catch branch answers (500)
StopPredictions(stopId, routeId) ==
  /\ IF ~IsSome(routeId)
     THEN served' = [op |-> "stopPredictions", status |-> 400,
                     stopId |-> stopId, routeId |-> routeId,
                     predictions |-> << >>]
     ELSE IF ~IsSome(stopId) \/ routeId[1] \notin MongoIds
     THEN served' = [op |-> "stopPredictions", status |-> 500,
                     stopId |-> stopId, routeId |-> routeId,
                     predictions |-> << >>]
     ELSE \E result \in getPredictionsForStop(stopId[1], routeId[1]) :
            served' = [op |-> "stopPredictions", status |-> 200,
                       stopId |-> stopId, routeId |-> routeId,
                       predictions |-> result]
  /\ UNCHANGED <<now, buses, drivers, routes, predictions, reqs>>
  /\ UNCHANGED <<rooms, emitted, client, tripsStarted>>

\* the records that are reported in the specification of the next arrivals
MaxArrivalsReported == 2

\* the stop and the route of a query: stop 1, stop 2, no number; no route,
\* route r1, the id of no route, no id
StopInputs == {Some(1), Some(2), None}

RouteInputs == {None, Some("r1"), Some("r9"), Some("zz")}

\* a store of sixteen records: eleven pending ones of (stop 1, route r1),
\* inserted latest arrival first, half an hour apart from 05:00; one in
\* transit that arrives with the third; one of stop 2; one of route r9; a
\* cancelled one; one whose arrival was predicted for 04:29
ArrivalSeeds ==
  [ i \in 1..16 |->
      [SeedPrediction EXCEPT
         !.predictedArrivalTime =
            IF i <= 11 THEN ClockStart + (12 - i) * 30 * MsPerMinute
            ELSE IF i = 12 THEN ClockStart + 9 * 30 * MsPerMinute
            ELSE IF i = 16 THEN ClockStart - MsPerMinute
            ELSE ClockStart + 30 * MsPerMinute,
         !.stopId = IF i = 13 THEN 2 ELSE 1,
         !.routeId = IF i = 14 THEN "r9" ELSE "r1",
         !.status = IF i = 12 THEN "in_transit"
                    ELSE IF i = 15 THEN "cancelled" ELSE "pending"] ]

InitArrivals ==
  /\ now = ClockStart
  /\ predictions = ArrivalSeeds
  /\ Stores

\* queries of the next arrivals while records are reported and re-predicted
NextArrivals ==
  \/ \E stopId \in StopInputs, routeId \in RouteInputs :
       StopPredictions(stopId, routeId)
  \/ \E id \in 1..MaxArrivalsReported :
       /\ reqs = EmptyBag
       /\ ReportFind(Some(id), TripArrivalInput)
  \/ \E r \in Pending("reportActual") : ReportSave(r)
  \/ \E id \in 1..MaxArrivalsReported, nf \in NewFactorsInputs :
       /\ IsSome(predictions[id].actualArrivalTime)
       /\ predictions[id].factors.trafficConditions # nf.trafficConditions
       /\ UpdatePrediction(id, nf)
  \/ Tick

SpecArrivals == InitArrivals /\ [][NextArrivals]_vars

\* ------------------------------------------------ the routes of the client
\* what a route element renders to: a page, or <Navigate to=...>
Page(name) == [kind |-> "page", to |-> name]

Navigate(to) == [kind |-> "navigate", to |-> to]

\* ProtectedRoute 4-25: no user: to /login; a role outside allowedRoles: to
\* the page of the role, /login for any other role; else the children
ProtectedRoute(user, allowedRoles, children) ==
  IF ~IsSome(user) THEN Navigate("/login")
  ELSE IF allowedRoles # {} /\ user[1].role \notin allowedRoles
  THEN CASE user[1].role = "admin" -> Navigate("/admin")
         [] user[1].role = "driver" -> Navigate("/driver")
         [] user[1].role = "user" -> Navigate("/dashboard")
         [] OTHER -> Navigate("/login")
  ELSE children

\* App.jsx 37-71: the routes nested in "/", rendered in the Layout
LayoutRoutes == {"/", "/dashboard", "/search", "/tracking/b1", "/routes",
                 "/admin", "/driver"}

Outlet(user, location) ==
  CASE location = "/" -> Navigate("/dashboard")
    [] location = "/dashboard" ->
         ProtectedRoute(user, {"user"}, Page("Dashboard"))
    [] location = "/search" ->
         ProtectedRoute(user, {"user"}, Page("BusSearch"))
    [] location = "/tracking/b1" ->
         ProtectedRoute(user, {"user"}, Page("BusTracking"))
    [] location = "/routes" ->
         ProtectedRoute(user, {"user"}, Page("RoutesList"))
    [] location = "/admin" ->
         ProtectedRoute(user, {"admin"}, Page("AdminDashboard"))
    [] location = "/driver" ->
         ProtectedRoute(user, {"driver"}, Page("DriverDashboard"))

\* App.jsx 26-76: <Routes>: /login and /register for a visitor, the routes
\* under "/" behind ProtectedRoute, any other path to "/"
App(user, location) ==
  IF location = "/login"
  THEN IF ~IsSome(user) THEN Page("Login") ELSE Navigate("/")
  ELSE IF location = "/register"
  THEN IF ~IsSome(user) THEN Page("Register") ELSE Navigate("/")
  ELSE IF location \in LayoutRoutes
  THEN ProtectedRoute(user, {}, Outlet(user, location))
  ELSE Navigate("/")

\* one rendering of App at the location of the client: a <Navigate> moves
\* the location, a page is rendered and stays
RouteRedirect ==
  /\ client.page = ""
  /\ App(client.user, client.location).kind = "navigate"
  /\ client' = [client EXCEPT
                  !.location = App(client.user, client.location).to]
  /\ UNCHANGED <<now, buses, drivers, routes, predictions, reqs, served>>
  /\ UNCHANGED <<rooms, emitted, tripsStarted>>

RouteRender ==
  /\ client.page = ""
  /\ App(client.user, client.location).kind = "page"
  /\ client' = [client EXCEPT
                  !.page = App(client.user, client.location).to]
  /\ UNCHANGED <<now, buses, drivers, routes, predictions, reqs, served>>
  /\ UNCHANGED <<rooms, emitted, tripsStarted>>

\* the user of the client: none, or one whose role is that of a user, an
\* admin or a driver, or another value; the paths requested
UserInputs ==
  {None} \cup {Some([role |-> role]) :
                 role \in {"user", "admin", "driver", "guest"}}

PathInputs == LayoutRoutes \cup {"/login", "/register", "/reports"}

InitClient ==
  /\ now = ClockStart
  /\ predictions = << >>
  /\ buses = [b \in {"b1"} |-> BusDoc("active", None, None)]
  /\ drivers = [d \in {"d1"} |-> DriverDoc(Some("b1"), FALSE)]
  /\ routes = [r \in {"r1"} |-> [status |-> "active"]]
  /\ reqs = EmptyBag
  /\ served = NoResponse
  /\ rooms = [s \in Sockets |-> {}]
  /\ emitted = << >>
  /\ tripsStarted = [d \in {"d1"} |-> 0]
  /\ \E user \in UserInputs, path \in PathInputs :
       client = [user |-> user, requested |-> path, location |-> path,
                 page |-> ""]

NextClient ==
  \/ RouteRedirect
  \/ RouteRender

\* the router renders again after every navigation
SpecClient == InitClient /\ [][NextClient]_vars /\ WF_vars(NextClient)

\* =============================================================== properties
\* The rule of the specification: t = base x traffic x weather x time of day
\* x 30/speed minutes, in milliseconds (multipliers in tenths)
TrafficTenths(traffic) ==
  IF traffic = "high" THEN 15 ELSE IF traffic = "low" THEN 8 ELSE 10

WeatherTenths(weather) == IF weather \in {"rainy", "snowy"} THEN 13 ELSE 10

TimeOfDayTenths(timeOfDay) ==
  IF timeOfDay \in {"morning", "evening"} THEN 12 ELSE 10

RuleOffsetMs(base, traffic, weather, timeOfDay, speed) ==
  LET t == base * TrafficTenths(traffic) * WeatherTenths(weather)
                * TimeOfDayTenths(timeOfDay) * 60
  IN IF speed > 0 THEN (t * 30) \div speed ELSE t

RuleOffsetOf(base, doc) ==
  RuleOffsetMs(base, doc.factors.trafficConditions,
               doc.factors.weatherConditions, doc.factors.timeOfDay,
               doc.factors.currentSpeed)

\* C1: the predictedArrivalTime a generate request stores is the time of the
\* computation plus 30 x traffic x weather x time-of-day x speed multiplier
\* minutes, the time-of-day multiplier being 1.2 in a morning or evening
\* hour and 1 otherwise (high, rainy, morning, 15 km/h: 140.4 minutes).
\* Stated over SpecCalc, where a record is stored at the instant of its
\* computation and is never recomputed.
C1_PeakHourMultiplier ==
  \A i \in 1..Len(predictions) :
    predictions[i].predictedArrivalTime =
      predictions[i].createdAt + RuleOffsetOf(DefaultBaseTime, predictions[i])

\* the same rule holds of the code in the hours without a peak multiplier
C1_OffPeakRule ==
  \A i \in 1..Len(predictions) :
    predictions[i].factors.timeOfDay \in {"afternoon", "night"}
    => predictions[i].predictedArrivalTime =
         predictions[i].createdAt + RuleOffsetOf(DefaultBaseTime, predictions[i])

\* the numeric ranges the specification gives to the factors of a request
SpeedInRange(body) ==
  ~IsSome(body.factors.currentSpeed)
  \/ (body.factors.currentSpeed[1] >= 0
      /\ body.factors.currentSpeed[1] <= SchemaSpeedMax)

Resolves(body) ==
  body.busId[1] \in DOMAIN buses /\ body.routeId[1] \in DOMAIN routes

\* C2: a generate request that passes input validation (numeric factors in
\* range) and whose bus and route exist is answered with success and adds
\* exactly one record, with status pending, whatever the bus's state (also
\* a bus without a driver).
C2_GenerateAlwaysPersists ==
  [][\A r \in Pending("generate") :
       (reqs' = reqs (-) SetToBag({r}) /\ SpeedInRange(r.body))
       => /\ served'.status = 201
          /\ Len(predictions') = Len(predictions) + 1
          /\ predictions'[Len(predictions')].status = "pending"]_vars

\* the historical averages the store knows of a (bus, route) pair: the
\* historicalData.averageTravelTime of its records, 0 meaning none
KnownAverages(busId, routeId) ==
  { predictions[i].averageTravelTime :
      i \in { j \in 1..Len(predictions) :
                /\ predictions[j].busId = busId
                /\ predictions[j].routeId = routeId
                /\ predictions[j].averageTravelTime # 0 } }

BaseTimes(busId, routeId) ==
  IF KnownAverages(busId, routeId) = {} THEN {DefaultBaseTime}
  ELSE KnownAverages(busId, routeId)

WithDefaults(body) ==
  [body EXCEPT
     !.factors.trafficConditions =
        IF IsSome(@) THEN @ ELSE Some("medium"),
     !.factors.weatherConditions =
        IF IsSome(@) THEN @ ELSE Some("clear")]

\* C4: a generate request without factors.trafficConditions or without
\* factors.weatherConditions, valid otherwise, is not rejected.
C4_AbsentFactorsAccepted ==
  ( /\ served.op = "generate"
    /\ served.body # WithDefaults(served.body)
    /\ GenerateErrors(WithDefaults(served.body)) = {} )
  => served.status # 400

NumericOutOfRange(body) ==
  \/ ~SpeedInRange(body)
  \/ (IsSome(body.factors.distanceToStop)
      /\ body.factors.distanceToStop[1] < 0)

\* C5: a generate request with currentSpeed outside [0,120] or a negative
\* distanceToStop is answered 400 with a list of field-level messages, no
\* arrival time is computed for it and no record is stored.
C5_OutOfRangeRejected ==
  /\ \A r \in Pending("generate") : ~NumericOutOfRange(r.body)
  /\ (served.op = "generate" /\ NumericOutOfRange(served.body))
     => (served.status = 400 /\ served.errors # {} /\ predictions = << >>)

\* the accuracy a of the specification's reconcile for the two timestamps:
\* a = round(max(0, 100 - 2 x |predicted - actual| / 60000)), an integer in
\* 0..100; a - 1/2 <= x < a + 1/2 is stated over 2 x 60000
RuleAccuracy(a, predicted, actual) ==
  LET d == Abs(predicted - actual)
      x == 2 * Max(0, 100 * MsPerMinute - 2 * d)
  IN /\ a \in 0..100
     /\ 2 * MsPerMinute * a - MsPerMinute <= x
     /\ x < 2 * MsPerMinute * a + MsPerMinute
     /\ (d = 0 => a = 100)
     /\ (d = 25 * MsPerMinute => a = 50)
     /\ (d >= 50 * MsPerMinute => a = 0)

\* C6: the accuracy stored for a predicted and an actual arrival time is
\* round(max(0, 100 - 2 x |predicted - actual| in minutes)), whether the
\* actual time is before or after the predicted one: an integer in 0..100,
\* 100 for equal times, 50 for 25 minutes, 0 from 50 minutes on.
C6_Reconcile ==
  \A i \in 1..Len(predictions) :
    IsSome(predictions[i].actualArrivalTime)
    => /\ IsSome(predictions[i].predictionAccuracy)
       /\ RuleAccuracy(predictions[i].predictionAccuracy[1],
                       predictions[i].predictedArrivalTime,
                       predictions[i].actualArrivalTime[1])

\* a bus reported 25 minutes late: accuracy 50
C6_Witness ==
  /\ Len(predictions) = 1
  /\ predictions[1].actualArrivalTime =
       Some(predictions[1].predictedArrivalTime + 25 * MsPerMinute)
  /\ predictions[1].predictionAccuracy = Some(50)
  /\ served.op = "reportActual" /\ served.status = 200

C8_NoAccuracyBeforeActual ==
  \A doc \in { predictions[i] : i \in 1..Len(predictions) }
             \cup { r.doc : r \in Pending("generate") } :
    ~IsSome(doc.actualArrivalTime)
    => /\ ~IsSome(doc.predictionAccuracy)
       /\ ~IsSome(calculateAccuracy(doc).predictionAccuracy)

\* a stored record that updatePrediction recomputed while a reportActual
\* call on it is in flight, and that has no arrival yet
C8_Witness ==
  /\ Len(predictions) = 1
  /\ predictions[1].factors.trafficConditions = "low"
  /\ Pending("reportActual") # {}
  /\ ~IsSome(predictions[1].actualArrivalTime)
  /\ ~IsSome(predictions[1].predictionAccuracy)

FactorsOf(r) ==
  <<r.doc.factors.trafficConditions, r.doc.factors.weatherConditions,
    r.doc.factors.currentSpeed>>

C10_NotFound ==
  [][ /\ (served'.op = "generate" /\ served'.status = 404)
         => (predictions' = predictions /\ reqs' = reqs)
      /\ ( /\ served'.op = "generate"
           /\ GenerateErrors(served'.body) = {}
           /\ ~Resolves(served'.body) )
         => served'.status = 404
      /\ \A r \in Pending("generate")' : Resolves(r.body) ]_vars

\* the answer to a request for an existing bus and a route that does not exist
C10_Witness ==
  /\ served.op = "generate" /\ served.status = 404
  /\ served.body.busId[1] \in DOMAIN buses
  /\ served.body.routeId[1] \notin DOMAIN routes

\* C11: a reportActual request with a valid body whose id does not identify
\* a stored record (the id of no record, or a string that is no id at all)
\* is answered not-found, and no record is created or modified.
C11_ReportNotFound ==
  [][ ( /\ served'.op = "reportActual"
        /\ served'.status # 400
        /\ (~IsSome(served'.id) \/ served'.id[1] \notin 1..Len(predictions)) )
      => (served'.status = 404 /\ predictions' = predictions) ]_vars

\* the same for the ids that are well formed: the code answers those 404
C11_WellFormedNotFound ==
  [][ ( /\ served'.op = "reportActual"
        /\ served'.status # 400
        /\ IsSome(served'.id)
        /\ served'.id[1] \notin 1..Len(predictions) )
      => (served'.status = 404 /\ predictions' = predictions) ]_vars

\* C12: through generate, reportActual, updatePrediction, start-trip and
\* end-trip every record's status is pending or arrived, never cancelled nor
\* in_transit: arrived exactly when the record has an actual arrival, and
\* once arrived it stays so.
C12_StatusLifecycle ==
  [][ \A i \in 1..Len(predictions') :
        LET q == predictions'[i] IN
        /\ q.status \in {"pending", "arrived"}
        /\ (q.status = "arrived") <=> IsSome(q.actualArrivalTime)
        /\ (i <= Len(predictions) /\ predictions[i].status = "arrived")
           => q.status = "arrived" ]_vars

\* the trip of bus b1 has ended while a prediction of that bus is pending
C12_Witness ==
  /\ served.op = "endTrip" /\ served.status = 200
  /\ Len(predictions) = 1
  /\ predictions[1].busId = "b1"
  /\ predictions[1].status = "pending"
  /\ buses["b1"].status = "active"

\* the arrival time generate computes at instant t for the factors of a body
GeneratedAt(factors, t) == AddMinutes(t, GenerateBaseTime(factors))

\* the arrival time updatePrediction computes at instant t for a stored
\* record whose historical average is base
UpdatedAt(doc, base, newFactors, t) ==
  updatePrediction([doc EXCEPT !.averageTravelTime = base],
                   newFactors, t).predictedArrivalTime

\* C13: with the weather, the speed, the time of day, the base time and the
\* instant fixed, traffic high gives a strictly later arrival than medium
\* and medium than low (x 1.5, x 1, x 0.8), in generate and in
\* updatePrediction; a request's record carries the time of its own traffic.
C13_TrafficMonotone ==
  /\ \A r \in Pending("generate") :
       LET f == r.body.factors
           With(tr) == [f EXCEPT !.trafficConditions = Some(tr)]
       IN /\ GeneratedAt(With("high"), r.now) > GeneratedAt(With("medium"), r.now)
          /\ GeneratedAt(With("medium"), r.now) > GeneratedAt(With("low"), r.now)
          /\ GenerateBaseTime(With("high"))
               = Times(GenerateBaseTime(With("medium")), 15, 10)
          /\ GenerateBaseTime(With("low"))
               = Times(GenerateBaseTime(With("medium")), 8, 10)
          /\ r.doc.predictedArrivalTime = GeneratedAt(f, r.now)
  /\ \A i \in 1..Len(predictions), base \in HistoricalAverages :
       LET Upd(tr) == UpdatedAt(predictions[i], base,
                                [trafficConditions |-> tr], now)
       IN Upd("high") > Upd("medium") /\ Upd("medium") > Upd("low")

\* a request with high traffic at the highest admitted speed is computed
C13_Witness ==
  \E r \in Pending("generate") :
    /\ r.body.factors.trafficConditions = Some("high")
    /\ r.body.factors.currentSpeed = Some(SchemaSpeedMax)
    /\ r.doc.predictedArrivalTime
         > GeneratedAt([r.body.factors EXCEPT
                          !.trafficConditions = Some("low")], r.now)

\* C14: a prediction computed with currentSpeed 0, or with none, is computed
\* without an error and with the speed multiplier 1: its arrival time is
\* the one of the same factors at the baseline speed 30 (30 / 30 = 1), in
\* generate and in updatePrediction, and the request is answered 201.
C14_ZeroSpeedNeutral ==
  /\ \A r \in Pending("generate") :
       r.body.factors.currentSpeed \in {None, Some(0)}
       => /\ GenerateBaseTime(r.body.factors)
               = GenerateBaseTime([r.body.factors EXCEPT
                                     !.currentSpeed = Some(SpeedBaseline)])
          /\ r.doc.predictedArrivalTime
               = GeneratedAt([r.body.factors EXCEPT
                                !.currentSpeed = Some(SpeedBaseline)], r.now)
  /\ ( /\ served.op = "generate"
       /\ served.status \notin {400, 404}
       /\ served.body.factors.currentSpeed \in {None, Some(0)} )
     => /\ served.status = 201
        /\ predictions[1].factors.currentSpeed = 0
  /\ \A i \in 1..Len(predictions), base \in HistoricalAverages :
       UpdatedAt(predictions[i], base, [currentSpeed |-> 0], now)
         = UpdatedAt(predictions[i], base,
                     [currentSpeed |-> SpeedBaseline], now)

\* a record stored for a request with speed 0, medium traffic and clear
\* weather: 30 minutes from its computation
C14_Witness ==
  /\ served.op = "generate" /\ served.status = 201
  /\ served.body.factors.currentSpeed = Some(0)
  /\ served.body.factors.trafficConditions = Some("medium")
  /\ served.body.factors.weatherConditions = Some("clear")
  /\ predictions[1].predictedArrivalTime
       = predictions[1].createdAt + DefaultBaseTime * MsPerMinute

\* the offset of the specification, in whole milliseconds, for a base time
\* in minutes and a speed > 0 when every other multiplier is 1
RuleNeutralOffsetMs(base, speed) ==
  (base * 30 * MsPerMinute) \div speed

\* C15: with traffic medium, weather clear and time of day afternoon the
\* arrival time is the instant of the computation plus baseTime x 30 /
\* currentSpeed minutes for every currentSpeed > 0 (speed 30: baseTime
\* minutes; base 30 and speed 60: 15 minutes), the base time being 30 in
\* generate and the historical average, if any, in updatePrediction.
C15_NeutralFactors ==
  /\ \A r \in Pending("generate") :
       ( /\ r.doc.factors.trafficConditions = "medium"
         /\ r.doc.factors.weatherConditions = "clear"
         /\ r.doc.factors.timeOfDay = "afternoon"
         /\ r.doc.factors.currentSpeed > 0 )
       => /\ r.doc.predictedArrivalTime
               = r.now + RuleNeutralOffsetMs(30, r.doc.factors.currentSpeed)
          /\ r.doc.factors.currentSpeed = 30
               => r.doc.predictedArrivalTime = r.now + 30 * MsPerMinute
          /\ r.doc.factors.currentSpeed = 60
               => r.doc.predictedArrivalTime = r.now + 15 * MsPerMinute
  /\ \A i \in 1..Len(predictions), base \in HistoricalAverages \ {0},
        speed \in {15, 30, 60, 120} :
       predictions[i].factors.timeOfDay = "afternoon"
       => /\ UpdatedAt(predictions[i], base,
                       [trafficConditions |-> "medium",
                        weatherConditions |-> "clear",
                        currentSpeed |-> speed], now)
               = now + RuleNeutralOffsetMs(base, speed)
          /\ UpdatedAt(predictions[i], 0,
                       [trafficConditions |-> "medium",
                        weatherConditions |-> "clear",
                        currentSpeed |-> speed], now)
               = now + RuleNeutralOffsetMs(30, speed)

\* a record stored in the afternoon for medium traffic, clear weather and
\* 60 km/h: 15 minutes from its computation
C15_Witness ==
  /\ served.op = "generate" /\ served.status = 201
  /\ predictions[1].factors.trafficConditions = "medium"
  /\ predictions[1].factors.weatherConditions = "clear"
  /\ predictions[1].factors.timeOfDay = "afternoon"
  /\ predictions[1].factors.currentSpeed = 60
  /\ predictions[1].predictedArrivalTime
       = predictions[1].createdAt + 15 * MsPerMinute

\* C16: the weather multiplier is 1.3 for rainy and for snowy and 1 for
\* clear and for foggy: with every other factor equal, foggy gives the
\* arrival time of clear and rainy and snowy give 1.3 times its offset, in
\* generate and (to the millisecond) in updatePrediction.
C16_WeatherMultiplier ==
  /\ \A r \in Pending("generate") :
       LET With(we) == [r.body.factors EXCEPT !.weatherConditions = Some(we)]
       IN /\ GenerateBaseTime(With("rainy"))
               = Times(GenerateBaseTime(With("clear")), 13, 10)
          /\ GenerateBaseTime(With("snowy")) = GenerateBaseTime(With("rainy"))
          /\ GenerateBaseTime(With("foggy")) = GenerateBaseTime(With("clear"))
          /\ GeneratedAt(With("foggy"), r.now) = GeneratedAt(With("clear"), r.now)
          /\ r.doc.predictedArrivalTime = GeneratedAt(r.body.factors, r.now)
  /\ \A i \in 1..Len(predictions), base \in HistoricalAverages :
       LET Upd(we) == UpdatedAt(predictions[i], base,
                                [weatherConditions |-> we], now) - now
       IN /\ Upd("foggy") = Upd("clear")
          /\ Upd("snowy") = Upd("rainy")
          /\ 10 * Upd("rainy") <= 13 * (Upd("clear") + 1)
          /\ 10 * (Upd("rainy") + 1) > 13 * Upd("clear")

\* a record stored for foggy weather: the arrival time of clear weather
C16_Witness ==
  /\ served.op = "generate" /\ served.status = 201
  /\ predictions[1].factors.weatherConditions = "foggy"
  /\ predictions[1].predictedArrivalTime
       = GeneratedAt([served.body.factors EXCEPT
                        !.weatherConditions = Some("clear")],
                     predictions[1].createdAt)
  /\ predictions[1].predictedArrivalTime
       < GeneratedAt([served.body.factors EXCEPT
                        !.weatherConditions = Some("rainy")],
                     predictions[1].createdAt)

RuleTimeOfDay(h) ==
  IF h \in 5..11 THEN "morning"
  ELSE IF h \in 12..16 THEN "afternoon"
  ELSE IF h \in 17..20 THEN "evening"
  ELSE "night"

\* C18: the timeOfDay of the record a generate request builds and stores is
\* the one of the wall-clock hour of the request, for every hour 0..23
\* (morning 5-11, afternoon 12-16, evening 17-20, night otherwise), whether
\* or not the request's factors carry a timeOfDay.
C18_TimeOfDayFromClock ==
  /\ \A r \in Pending("generate") :
       r.doc.factors.timeOfDay = RuleTimeOfDay((r.now \div MsPerHour) % 24)
  /\ \A i \in 1..Len(predictions) :
       predictions[i].factors.timeOfDay
         = RuleTimeOfDay((predictions[i].createdAt \div MsPerHour) % 24)

\* a record stored at 11:59:59.999 for a request that said night: morning
C18_Witness ==
  /\ served.op = "generate" /\ served.status = 201
  /\ served.body.factors.timeOfDay = Some("night")
  /\ predictions[1].createdAt = 12 * MsPerHour - 1
  /\ predictions[1].factors.timeOfDay = "morning"

\* C19: the predictedArrivalTime of every record, built or stored, is
\* strictly later than the instant of its computation and than its
\* createdAt, for every admitted combination of factors (the fastest being
\* traffic low at 120 km/h) and after updatePrediction has recomputed it,
\* whatever the record's historical average.  Stated over SpecFactors, where
\* a record is inserted at the instant of its computation.
C19_PredictedAfterCreated ==
  /\ \A r \in Pending("generate") : r.doc.predictedArrivalTime > r.now
  /\ \A i \in 1..Len(predictions) :
       /\ predictions[i].predictedArrivalTime > predictions[i].createdAt
       /\ \A base \in HistoricalAverages, nf \in FactorUpdates :
            UpdatedAt(predictions[i], base, nf, now)
              > predictions[i].createdAt

\* a record that updatePrediction recomputed for low traffic at 120 km/h in
\* clear weather outside the peak hours: 6 minutes after its creation
C19_Witness ==
  /\ served = NoResponse
  /\ Len(predictions) = 1
  /\ predictions[1].factors.trafficConditions = "low"
  /\ predictions[1].factors.currentSpeed = SchemaSpeedMax
  /\ predictions[1].predictedArrivalTime
       = predictions[1].createdAt + 6 * MsPerMinute

\* the records of the specification's analytics: created within the window
\* of the period and matching the bus and route filter, if given
RuleWindowHours(period) ==
  IF period = "24h" THEN 24 ELSE IF period = "30d" THEN 30 * 24 ELSE 7 * 24

RuleAnalyticsRecords(period, busId, routeId) ==
  { i \in 1..Len(predictions) :
      /\ LET age == now - predictions[i].createdAt IN
         \/ age \div MsPerHour < RuleWindowHours(period)
         \/ /\ age \div MsPerHour = RuleWindowHours(period)
            /\ age % MsPerHour = 0
      /\ IsSome(busId) => predictions[i].busId = busId[1]
      /\ IsSome(routeId) => predictions[i].routeId = routeId[1] }

\* C20: the analytics answer carries totalPredictions = the number of
\* records created within the window that match the filter,
\* accuratePredictions = the number of those with accuracy >= 80 and
\* averageAccuracy = the mean of their accuracies; accuratePredictions <=
\* totalPredictions, and all are 0 when no record matches.
C20_Analytics ==
  served.op = "analytics"
  => LET M == RuleAnalyticsRecords(served.period, served.busId,
                                   served.routeId)
         A == {i \in M : IsSome(predictions[i].predictionAccuracy)}
         a == served.analytics
     IN /\ a.totalPredictions = Cardinality(M)
        /\ a.accuratePredictions
             = Cardinality({i \in A : predictions[i].predictionAccuracy[1] >= 80})
        /\ a.averageAccuracy.n * Cardinality(A)
             = SumAccuracy(A) * a.averageAccuracy.d
        /\ a.accuratePredictions <= a.totalPredictions
        /\ M = {} => /\ a.totalPredictions = 0
                     /\ a.accuratePredictions = 0
                     /\ a.averageAccuracy.n = 0

\* what the code does answer: without a filter, the figures of the records
\* of the window that have an actual arrival; with a filter, zeros
C20_ReconciledUnfiltered ==
  served.op = "analytics"
  => LET M == { i \in RuleAnalyticsRecords(served.period, None, None) :
                  IsSome(predictions[i].actualArrivalTime) }
         a == served.analytics
     IN IF IsSome(served.busId) \/ IsSome(served.routeId)
        THEN a.totalPredictions = 0 /\ a.accuratePredictions = 0
        ELSE /\ a.totalPredictions = Cardinality(M)
             /\ a.accuratePredictions
                  = Cardinality({i \in M :
                                   predictions[i].predictionAccuracy[1] >= 80})
             /\ a.averageAccuracy.n * Cardinality(M)
                  = SumAccuracy(M) * a.averageAccuracy.d
             /\ a.accuratePredictions <= a.totalPredictions

\* ------------------------------------------------------------------- C21
\* the event of an update-location request r: to the room of the driver's
\* bus, with the coordinates of the request, for the sockets in that room
LocationEventOf(r) ==
  LET busId == r.driver.currentBus[1] IN
  [ room |-> RoomOf(busId), event |-> "bus-location-update",
    data |-> [busId |-> busId, location |-> <<r.longitude, r.latitude>>,
              lastUpdate |-> r.bus[1].lastLocationUpdate],
    to |-> {s \in Sockets : RoomOf(busId) \in rooms[s]} ]

\* the update-location request the step answers with 200, if it is r
AnswersLocation(r) ==
  /\ served' = TripResponse("updateLocation", 200)
  /\ reqs' = reqs (-) SetToBag({r})

\* the step that brings an update-location request to its emit saved the
\* coordinates of the request to the record of the driver's bus
SavedBeforeEmit ==
  \A r \in BagToSet(reqs') :
    /\ r.op = "updateLocation" /\ r.pc = "emit"
    /\ CopiesIn(r, reqs') > CopiesIn(r, reqs)
    => buses'[r.driver.currentBus[1]].currentLocation.coordinates
         = <<r.longitude, r.latitude>>

\* bus-location-update is emitted by the step that answers an
\* update-location request of a driver whose bus exists, and by no other
\* step, with the coordinates of the request, to the sockets that are in the
\* room of the bus
EmittedToRoom ==
  /\ \A r \in Pending("updateLocation") :
       AnswersLocation(r) =>
         IF IsSome(r.driver.currentBus)
            /\ r.driver.currentBus[1] \in DOMAIN buses
         THEN /\ r.pc = "emit"
              /\ emitted' = Append(emitted, LocationEventOf(r))
         ELSE emitted' = emitted
  /\ emitted' # emitted =>
       \E r \in At("updateLocation", "emit") :
         /\ AnswersLocation(r)
         /\ emitted' = Append(emitted, LocationEventOf(r))

\* C21: an update-location request of a driver whose bus exists is answered
\* 200 in the step that emits bus-location-update with the coordinates of
\* the request to the sockets that are in the room of the bus (joined and
\* not left since), and to no other; the request comes to that step only
\* through the step that saves these coordinates to the bus record; nothing
\* else emits, and the request of a driver without a bus emits nothing.
C21_LocationBroadcast == [][EmittedToRoom /\ SavedBeforeEmit]_vars

\* the part of C21 on the event and its room
C21_EmittedToRoom == [][EmittedToRoom]_vars

\* an event of bus b1 went to socket s1 alone, which is in the room, and the
\* bus record holds the coordinates of the event
C21_Witness ==
  /\ Len(emitted) >= 1
  /\ emitted[Len(emitted)].room = RoomOf("b1")
  /\ emitted[Len(emitted)].to = {"s1"}
  /\ buses["b1"].currentLocation.coordinates
       = emitted[Len(emitted)].data.location
  /\ served = TripResponse("updateLocation", 200)

\* ------------------------------------------------------------------- C22
\* the token of a header is a valid token of an existing, active account
Authentic(token) ==
  /\ IsSome(token)
  /\ token[1].signed
  /\ \/ token[1].role = "driver" /\ token[1].id \in {"d1", "d2"}
     \/ token[1].role = "user" /\ token[1].id = "u1"
     \/ token[1].role = "admin" /\ token[1].id = "a1"

\* the step answers with the status and leaves the stores and the requests
\* in flight as they are
Refused(status) ==
  /\ served'.status = status
  /\ UNCHANGED <<buses, drivers, routes, predictions, reqs, rooms, emitted>>

\* C22: a request to a protected endpoint whose token is not a valid token
\* of an existing, active account is answered 401; a request to a driver's
\* endpoint by an authentic account that is no driver, and to an admin's
\* endpoint by one that is no admin, is answered 403; the step that answers
\* starts no handler and changes no store.
C22_Unauthorized ==
  [][ \A token \in TokenInputs :
        /\ StartTripRequest(token) \/ UpdateStatusRequest(token)
           => /\ ~Authentic(token) => Refused(401)
              /\ Authentic(token) /\ token[1].role # "driver" => Refused(403)
        /\ CreateBus(token, "b3")
           => /\ ~Authentic(token) => Refused(401)
              /\ Authentic(token) /\ token[1].role # "admin" => Refused(403)
    ]_vars

\* a user's valid token was refused (403) at start-trip
C22_Witness ==
  /\ served.op = "startTrip"
  /\ served.status = 403
  /\ "token" \in DOMAIN served
  /\ served.token = Token("u1", "user")

\* ------------------------------------------------------------------- C23
\* the start-trip request the step answers with 200, if it is r
StartTripSucceeds(r) ==
  /\ served' = TripResponse("startTrip", 200)
  /\ reqs' = reqs (-) SetToBag({r})

\* the store as a successful start-trip of request r leaves it
StartedTrip(r) ==
  /\ buses'[r.busId].status = "on_trip"
  /\ buses'[r.busId].isOnline
  /\ buses'[r.busId].currentRoute = Some(r.routeId)
  /\ buses'[r.busId].currentDriver = Some(r.d)
  /\ drivers'[r.d].isOnDuty
  /\ drivers'[r.d].currentBus = Some(r.busId)

\* C23: a start-trip request is answered 200 only when the bus of the
\* request is the driver's currentBus and exists, and the route exists and is
\* active, and it leaves the bus on_trip, online, bound to the route and the
\* driver, and the driver on duty with the bus; the bus is taken on a trip
\* only from status active; a step that answers start-trip with another
\* status leaves the buses and the drivers unchanged.
C23_StartTrip ==
  [][ /\ \A r \in Pending("startTrip") :
           StartTripSucceeds(r) =>
             /\ r.driver.currentBus = Some(r.busId)
             /\ r.busId \in DOMAIN buses
             /\ r.routeId \in DOMAIN routes
             /\ routes[r.routeId].status = "active"
             /\ StartedTrip(r)
      /\ \A b \in DOMAIN buses :
           /\ buses'[b].status = "on_trip"
           /\ buses'[b] # buses[b]
           /\ \E r \in At("startTrip", "busSave") :
                CopiesIn(r, reqs') < CopiesIn(r, reqs)
           => buses[b].status = "active"
      /\ served'.op = "startTrip" /\ served'.status # 200
           => buses' = buses /\ drivers' = drivers
    ]_vars

\* ------------------------------------------------------------------- C24
\* C24: the answer of the next-arrivals query for (stop, route) holds only
\* records of that stop and route whose status is pending or in_transit and
\* whose predicted arrival is not before the time of the query, in ascending
\* order of the predicted arrival, at most 10 of them and none twice; no
\* record that reportActual has been applied to is among them.
C24_NextArrivals ==
  served.op = "stopPredictions" /\ served.status = 200 =>
    LET result == served.predictions IN
    /\ Len(result) <= 10
    /\ \A k \in 1..Len(result) :
         /\ result[k] \in 1..Len(predictions)
         /\ predictions[result[k]].stopId = served.stopId[1]
         /\ predictions[result[k]].routeId = served.routeId[1]
         /\ predictions[result[k]].status \in {"pending", "in_transit"}
         /\ predictions[result[k]].predictedArrivalTime >= now
         /\ ~IsSome(predictions[result[k]].actualArrivalTime)
         /\ \A l \in 1..Len(result) :
              k < l => /\ result[k] # result[l]
                       /\ predictions[result[k]].predictedArrivalTime
                            <= predictions[result[l]].predictedArrivalTime

\* a query of (stop 1, route r1) is answered with 10 records while more
\* match, after record 1 was reported, which would have been among them
C24_Witness ==
  /\ served.op = "stopPredictions" /\ served.status = 200
  /\ served.stopId = Some(1) /\ served.routeId = Some("r1")
  /\ Len(served.predictions) = 10
  /\ IsSome(predictions[1].actualArrivalTime)
  /\ predictions[1].predictedArrivalTime >= now
  /\ Cardinality({ i \in 1..Len(predictions) :
                     /\ predictions[i].stopId = 1
                     /\ predictions[i].routeId = "r1"
                     /\ predictions[i].status \in {"pending", "in_transit"}
                     /\ predictions[i].predictedArrivalTime >= now }) > 10

\* ------------------------------------------------------------------- C25
\* C25: a stored record that has an accuracy has an actual arrival, and the
\* accuracy is the reconciliation of the predicted and the actual arrival
\* the record holds.
C25_AccuracyOfStoredTimes ==
  \A i \in 1..Len(predictions) :
    IsSome(predictions[i].predictionAccuracy) =>
      /\ IsSome(predictions[i].actualArrivalTime)
      /\ RuleAccuracy(predictions[i].predictionAccuracy[1],
                      predictions[i].predictedArrivalTime,
                      predictions[i].actualArrivalTime[1])

\* C26: once a critical issue has put a bus in maintenance, no step of a
\* driver's endpoint (start-trip, end-trip, update-location,
\* update-passenger-count, report-issue, update-status) returns the bus to
\* active or on_trip, and a start-trip on it is not answered with success
InMaintenance(b) ==
  /\ buses[b].status = "maintenance"
  /\ \E i \in 1..Len(buses[b].maintenanceHistory) :
       buses[b].maintenanceHistory[i] = "critical"

StaysInMaintenance ==
  \A b \in DOMAIN buses :
    InMaintenance(b) =>
      /\ buses'[b].status \notin {"active", "on_trip"}
      /\ \A r \in At("startTrip", "findBus") :
           r.busId = b /\ reqs' = reqs (-) SetToBag({r})
             => served' = TripResponse("startTrip", 400)

C26_MaintenanceHolds == [][StaysInMaintenance]_vars

\* C27: the totalTrips of a driver never exceeds the number of trips the
\* driver started successfully
C27_TripsCounted ==
  \A d \in DOMAIN drivers : drivers[d].totalTrips <= tripsStarted[d]

\* C28: through start-trip, end-trip and update-status a driver who is on
\* duty has a current bus
C28_OnDutyHasBus ==
  \A d \in DOMAIN drivers :
    drivers[d].isOnDuty => IsSome(drivers[d].currentBus)

\* C29: when no update-location request is in flight, the location of the
\* last bus-location-update emitted for a bus is the location stored in the
\* record of the bus
LastEmittedFor(b) ==
  LET I == {i \in 1..Len(emitted) : emitted[i].data.busId = b}
  IN IF I = {} THEN None
     ELSE Some(emitted[CHOOSE i \in I : \A j \in I : j <= i].data.location)

C29_LastEmittedIsStored ==
  Pending("updateLocation") = {} =>
    \A b \in DOMAIN buses :
      IsSome(LastEmittedFor(b)) =>
        LastEmittedFor(b)[1] = buses[b].currentLocation.coordinates

\* C30: for every user of the client (none, or one with any role) and every
\* requested path, the resolution of the route comes to a rendered page
C30_RouteResolves == <>(client.page # "")
====
